---- MODULE Spec2Model ----
(***************************************************************************)
(* A model of rustify: the URL / body / query builders of src/http.rs, the *)
(* code generated by the Endpoint derive macro (rustify_derive), and the   *)
(* execution pipeline of src/endpoint.rs with the status classification of *)
(* src/client.rs and src/blocking/client.rs.                               *)
(*                                                                         *)
(* Text is a sequence of one-character strings ("tokens"); a few atoms     *)
(* that the code never looks inside (a scheme with its host, a field name) *)
(* are one token each.  Bytes are the same sequences (str::as_bytes).      *)
(***************************************************************************)
EXTENDS Integers, Sequences, FiniteSets, TLC

VARIABLES
    u_base,     \* build_url: the `base` argument
    u_path,     \* build_url: the `path` argument
    u_query,    \* build_url: the `query` argument (Option<String>)
    u_out,      \* build_url: what the call produced (NotCalled before it)
    fields,     \* derive: the struct's fields, in declaration order
    self,       \* derive: the endpoint instance, field name -> value
    method,     \* derive: the `method` parameter of #[endpoint(...)]
    derived,    \* derive: what endpoint_derive generated (or its error)
    built,      \* derive: what Endpoint::request / url returned
    ex,         \* pipeline: one execution of Endpoint::exec / exec_block
    res,        \* result: an EndpointResult and the calls made on it
    template,   \* path: the `path` literal of #[endpoint(path = "...")]
    path_out,   \* path: what the generated path() returned (NoPath before it)
    s_attrs,    \* params: the #[endpoint(...)] attributes on the struct
    p_fields,   \* params: the struct's fields with their #[endpoint(...)] roles
    params,     \* params: what endpoint_derive made of them (NotExpanded before it)
    exs         \* concurrency: the executions in progress against one client

urlVars == <<u_base, u_path, u_query, u_out>>
deriveVars == <<fields, self, method, derived, built>>
resVars == <<res>>
pathVars == <<template, path_out>>
paramVars == <<s_attrs, p_fields, params>>
concVars == <<exs>>
vars == <<u_base, u_path, u_query, u_out, fields, self, method, derived, built, ex, res,
          template, path_out, s_attrs, p_fields, params, exs>>

----------------------------------------------------------------------------
(* Option<T> and strings *)

Some(x) == [some |-> TRUE, v |-> x]
None == [some |-> FALSE, v |-> <<>>]

\* All sequences over S of length at most n.
SeqsUpTo(S, n) == UNION {[1..k -> S] : k \in 0..n}

\* str::strip_prefix(c).unwrap_or(s)
strip_prefix_or(s, c) == IF s # <<>> /\ Head(s) = c THEN Tail(s) ELSE s

\* str::split(c): the pieces between occurrences of c, empty pieces included.
RECURSIVE split(_, _)
split(s, c) ==
    IF \A i \in 1..Len(s) : s[i] # c
    THEN <<s>>
    ELSE LET i == CHOOSE k \in 1..Len(s) : s[k] = c /\ \A j \in 1..(k - 1) : s[j] # c
         IN  <<SubSeq(s, 1, i - 1)>> \o split(SubSeq(s, i + 1, Len(s)), c)

\* Index of the first element of s that lies in S, or Len(s) + 1.
FirstIn(s, S) ==
    IF \E i \in 1..Len(s) : s[i] \in S
    THEN CHOOSE i \in 1..Len(s) : s[i] \in S /\ \A j \in 1..(i - 1) : s[j] \notin S
    ELSE Len(s) + 1

----------------------------------------------------------------------------
(* url::Url as build_url uses it *)

\* A special scheme with its host: "https://h" is one token.
SpecialOrigin == "https://h"
\* A scheme whose URLs cannot be a base (no path segments): "mailto:".
OpaqueScheme == "mailto:"

NoUrl == [origin |-> <<>>, path |-> <<>>, query |-> None, cannot_be_a_base |-> FALSE]

\* Url::parse: a string without a scheme is an error (RelativeUrlWithoutBase);
\* characters after the host up to the first '/' or '?' belong to the host;
\* the empty path of a special scheme is "/".
url_parse(s) ==
    IF s = <<>> \/ Head(s) \notin {SpecialOrigin, OpaqueScheme}
    THEN [ok |-> FALSE, url |-> NoUrl]
    ELSE IF Head(s) = OpaqueScheme
    THEN [ok |-> TRUE,
          url |-> [origin |-> <<OpaqueScheme>>, path |-> Tail(s), query |-> None,
                   cannot_be_a_base |-> TRUE]]
    ELSE LET rest == Tail(s)
             p0   == FirstIn(rest, {"/", "?"})
             q0   == FirstIn(rest, {"?"})
             path == SubSeq(rest, p0, q0 - 1)
         IN  [ok |-> TRUE,
              url |-> [origin |-> <<SpecialOrigin>> \o SubSeq(rest, 1, p0 - 1),
                       path |-> IF path = <<>> THEN <<"/">> ELSE path,
                       query |-> IF q0 > Len(rest) THEN None
                                 ELSE Some(SubSeq(rest, q0 + 1, Len(rest))),
                       cannot_be_a_base |-> FALSE]]

\* PathSegmentsMut::pop_if_empty: drops a trailing '/' of the path, except
\* the path's first one.
pop_if_empty(path) ==
    IF Len(path) <= 1 THEN path
    ELSE IF path[Len(path)] = "/" THEN SubSeq(path, 1, Len(path) - 1)
    ELSE path

\* PathSegmentsMut::extend: "." and ".." are skipped; every other segment is
\* appended, after a '/' unless the path is just "/".
RECURSIVE extend(_, _)
extend(path, segments) ==
    IF segments = <<>> THEN path
    ELSE LET seg == Head(segments)
         IN  IF seg \in {<<".">>, <<".", ".">>}
             THEN extend(path, Tail(segments))
             ELSE extend((IF Len(path) > 1 THEN path \o <<"/">> ELSE path) \o seg,
                         Tail(segments))

\* Url::set_query(Some(q)): replaces the query; a '?' is written even when q
\* is empty.
set_query(url, q) == [url EXCEPT !.query = Some(q)]

\* Url::to_string
url_to_string(url) ==
    url.origin \o url.path \o (IF url.query.some THEN <<"?">> \o url.query.v ELSE <<>>)

\* build_url without the removal of the path's leading '/'.
build_url_keep_leading_slash(base, path, query) ==
    LET parsed == url_parse(base)
    IN  IF ~parsed.ok THEN [kind |-> "err", err |-> "UrlParseError", uri |-> <<>>]
        ELSE IF parsed.url.cannot_be_a_base
        THEN [kind |-> "panic", err |-> "unwrap", uri |-> <<>>]
        ELSE LET u1 == [parsed.url EXCEPT
                            !.path = extend(pop_if_empty(@), split(path, "/"))]
                 u2 == IF query.some THEN set_query(u1, query.v) ELSE u1
             IN  [kind |-> "ok", err |-> "", uri |-> url_to_string(u2)]

\* http::build_url
build_url(base, path, query) ==
    LET parsed == url_parse(base)
    IN  IF ~parsed.ok THEN [kind |-> "err", err |-> "UrlParseError", uri |-> <<>>]
        ELSE IF parsed.url.cannot_be_a_base
        THEN [kind |-> "panic", err |-> "unwrap", uri |-> <<>>]
        ELSE LET p  == strip_prefix_or(path, "/")
                 u1 == [parsed.url EXCEPT
                            !.path = extend(pop_if_empty(@), split(p, "/"))]
                 u2 == IF query.some THEN set_query(u1, query.v) ELSE u1
             IN  [kind |-> "ok", err |-> "", uri |-> url_to_string(u2)]

----------------------------------------------------------------------------
(* build_url on bounded inputs *)

MaxPathLen == 3
PathChars == {"/", "a", "."}
Paths == SeqsUpTo(PathChars, MaxPathLen)

Bases ==
    { <<SpecialOrigin>>,
      <<SpecialOrigin, "/">>,
      <<SpecialOrigin, "/", "b">>,
      <<SpecialOrigin, "/", "b", "/">>,
      <<SpecialOrigin, "/", "b", "/", "c">>,
      <<SpecialOrigin, "/", "b", "/", "c", "/">>,
      <<SpecialOrigin, "/", "b", "/", "/">>,
      <<SpecialOrigin, "?", "x">>,
      <<SpecialOrigin, "/", "b", "?", "x">>,
      <<OpaqueScheme, "x">>,
      <<"h">>,
      <<>> }

Queries == {None, Some(<<>>), Some(<<"k", "=", "v">>)}

NotCalled == [kind |-> "not_called", err |-> "", uri |-> <<>>]

UrlInit ==
    /\ u_base \in Bases
    /\ u_path \in Paths
    /\ u_query \in Queries
    /\ u_out = NotCalled

CallBuildUrl ==
    /\ u_out = NotCalled
    /\ u_out' = build_url(u_base, u_path, u_query)
    /\ UNCHANGED <<u_base, u_path, u_query>>

----------------------------------------------------------------------------
(* Serialization: serde_json and serde_urlencoded on the values the model uses *)

\* A runtime value: a String, an Option<String> (none / some) or a Vec<u8>.
StrVal(s) == [kind |-> "str", v |-> s]
NoneVal == [kind |-> "none", v |-> <<>>]
SomeVal(s) == [kind |-> "some", v |-> s]
BytesVal(b) == [kind |-> "bytes", v |-> b]

Quote == "\""
JsonNull == <<"n", "u", "l", "l">>
JsonEmptyObject == <<"{", "}">>

RECURSIVE join(_, _)
join(parts, sep) ==
    IF parts = <<>> THEN <<>>
    ELSE IF Len(parts) = 1 THEN parts[1]
    ELSE parts[1] \o sep \o join(Tail(parts), sep)

\* serde_json on one value: a string is quoted, None is null, Some(x) is x,
\* bytes are an array of numbers.
json_value(val) ==
    CASE val.kind = "none" -> JsonNull
      [] val.kind = "bytes" -> <<"[">> \o join([i \in 1..Len(val.v) |-> <<val.v[i]>>], <<",">>) \o <<"]">>
      [] OTHER -> <<Quote>> \o val.v \o <<Quote>>

\* The members a #[derive(Serialize)] struct emits: a member with
\* skip_serializing_if = "Option::is_none" is left out when it is None.
RECURSIVE emitted(_)
emitted(members) ==
    IF members = <<>> THEN <<>>
    ELSE LET m == Head(members)
         IN  IF m.skip_if_none /\ m.val.kind = "none"
             THEN emitted(Tail(members))
             ELSE <<m>> \o emitted(Tail(members))

\* serde_json::to_string of an object: the unit value / a bare None is null,
\* a struct is an object of its emitted members, in order.
serde_json_to_string(object) ==
    IF object.kind = "unit" THEN JsonNull
    ELSE LET ms == emitted(object.members)
         IN  <<"{">>
             \o join([i \in 1..Len(ms) |->
                        <<Quote, ms[i].name, Quote, ":">> \o json_value(ms[i].val)],
                     <<",">>)
             \o <<"}">>

\* serde_urlencoded::to_string of a struct: name=value pairs joined by '&';
\* a None value writes no pair; a byte vector is not supported.
RECURSIVE url_pairs(_)
url_pairs(ms) ==
    IF ms = <<>> THEN <<>>
    ELSE IF Head(ms).val.kind = "none" THEN url_pairs(Tail(ms))
    ELSE <<(<<Head(ms).name, "=">> \o Head(ms).val.v)>> \o url_pairs(Tail(ms))

serde_urlencoded_to_string(object) ==
    IF object.kind = "unit" THEN [ok |-> FALSE, s |-> <<>>]
    ELSE LET ms == emitted(object.members)
         IN  IF \E i \in 1..Len(ms) : ms[i].val.kind = "bytes"
             THEN [ok |-> FALSE, s |-> <<>>]
             ELSE [ok |-> TRUE, s |-> join(url_pairs(ms), <<"&">>)]

\* build_body that sends whatever the serializer wrote.
build_body_verbatim(object) ==
    [ok |-> TRUE, err |-> "", bytes |-> serde_json_to_string(object)]

\* http::build_body (RequestType::JSON): "null" and "{}" become no bytes.
\* serde_json does not fail on the objects of the model.
build_body(object) ==
    LET parse_data == serde_json_to_string(object)
    IN  [ok |-> TRUE, err |-> "",
         bytes |-> IF parse_data = JsonNull THEN <<>>
                   ELSE IF parse_data = JsonEmptyObject THEN <<>>
                   ELSE parse_data]

\* http::build_query
build_query(object) ==
    LET r == serde_urlencoded_to_string(object)
    IN  IF r.ok THEN [ok |-> TRUE, err |-> "", s |-> r.s]
        ELSE [ok |-> FALSE, err |-> "UrlQueryParseError", s |-> <<>>]

NoRequest == [uri |-> <<>>, method |-> "", headers |-> {}, body |-> <<>>]

\* Option<Vec<u8>>::unwrap_or_default
unwrap_or_default(data) == IF data.some THEN data.v ELSE <<>>

\* http::build_request: the URI, then http::Request::builder(), which accepts
\* every method of RequestMethod and every body.
build_request(base, path, m, query, data) ==
    LET uri == build_url(base, path, query)
    IN  IF uri.kind # "ok"
        THEN [kind |-> uri.kind, err |-> uri.err, req |-> NoRequest]
        ELSE [kind |-> "ok", err |-> "",
              req |-> [uri |-> uri.uri, method |-> m, headers |-> {},
                       body |-> unwrap_or_default(data)]]

----------------------------------------------------------------------------
(* rustify_derive: from a struct's fields to the generated query() and body() *)

\* A field's type is a path: Option<String>, std::option::Option<String>, ...
Ty(colon, segs) == [leading_colon |-> colon, segments |-> segs]
TString == Ty(FALSE, <<"String">>)
TOption == Ty(FALSE, <<"Option">>)
TStdOption == Ty(FALSE, <<"std", "option", "Option">>)
\* `option::Option<String>` after `use std::option;`
TModOption == Ty(FALSE, <<"option", "Option">>)
TVecU8 == Ty(FALSE, <<"Vec">>)

\* What rustc resolves the path to: the paths above that end in Option all
\* name std::option::Option.
IsOptionType(ty) == ty.segments[Len(ty.segments)] = "Option"

\* parse::is_std_option
is_std_option(ty) ==
    \/ /\ ~ty.leading_colon
       /\ Len(ty.segments) = 1
       /\ ty.segments[1] = "Option"
    \/ /\ Len(ty.segments) = 3
       /\ ty.segments[1] \in {"std", "core"}
       /\ ty.segments[2] = "option"
       /\ ty.segments[3] = "Option"

\* enum EndpointAttribute
Roles == {"body", "query", "raw", "skip", "untagged"}
NoGroups == [r \in Roles |-> <<>>]

\* str::to_lowercase on the idents the model uses.
to_lowercase(ident) == IF ident = "Body" THEN "body" ELSE ident

\* EndpointAttribute::try_from(&Meta)
EndpointAttribute_try_from(m) ==
    LET i == to_lowercase(m)
    IN  IF i \in {"body", "query", "raw", "skip"} THEN i ELSE "error"

Range(s) == {s[i] : i \in 1..Len(s)}
Repeat(x, n) == [i \in 1..n |-> x]

\* parse::field_attributes, field by field: a field without an endpoint
\* attribute joins Untagged; an empty attribute list or an unknown name is an
\* error; the metas are de-duplicated (HashSet<Meta>) and the field joins the
\* group of each.
RECURSIVE field_attributes(_, _)
field_attributes(fs, result) ==
    IF fs = <<>> THEN [ok |-> TRUE, groups |-> result]
    ELSE LET field == Head(fs)
             attrs == field.attrs
             metas == UNION {Range(attrs[i]) : i \in 1..Len(attrs)}
         IN  IF \E i \in 1..Len(attrs) : attrs[i] = <<>>
             THEN [ok |-> FALSE, groups |-> NoGroups]
             ELSE IF \E m \in metas : EndpointAttribute_try_from(m) = "error"
             THEN [ok |-> FALSE, groups |-> NoGroups]
             ELSE field_attributes(
                     Tail(fs),
                     [r \in Roles |->
                         IF r = "untagged"
                         THEN (IF attrs = <<>> THEN result[r] \o <<field>> ELSE result[r])
                         ELSE result[r] \o Repeat(field,
                                 Cardinality({m \in metas :
                                                 EndpointAttribute_try_from(m) = r}))])

\* parse::fields_to_struct: the members of __Temp, each borrowing the field
\* of the same name; an Option member is skipped when None.
fields_to_struct(fs) ==
    [i \in 1..Len(fs) |-> [name |-> fs[i].name, skip_if_none |-> is_std_option(fs[i].ty)]]

NoBody == [kind |-> "none", id |-> "", temp |-> <<>>]
NoQuery == [kind |-> "none", temp |-> <<>>]

\* gen_query
gen_query(groups) ==
    IF groups["query"] # <<>>
    THEN [kind |-> "serialize", temp |-> fields_to_struct(groups["query"])]
    ELSE NoQuery

\* gen_body that looks for Body fields before the Raw field.
gen_body_body_first(groups) ==
    IF groups["body"] # <<>>
    THEN [ok |-> TRUE,
          body |-> [kind |-> "serialize", id |-> "", temp |-> fields_to_struct(groups["body"])]]
    ELSE IF groups["raw"] # <<>>
    THEN IF Len(groups["raw"]) > 1 THEN [ok |-> FALSE, body |-> NoBody]
         ELSE [ok |-> TRUE,
               body |-> [kind |-> "raw", id |-> groups["raw"][1].name, temp |-> <<>>]]
    ELSE IF groups["untagged"] # <<>>
    THEN [ok |-> TRUE,
          body |-> [kind |-> "serialize", id |-> "",
                    temp |-> fields_to_struct(groups["untagged"])]]
    ELSE [ok |-> TRUE, body |-> NoBody]

\* gen_body whose untagged fallback takes the fields last to first.
gen_body_untagged_reversed(groups) ==
    IF groups["raw"] # <<>>
    THEN IF Len(groups["raw"]) > 1 THEN [ok |-> FALSE, body |-> NoBody]
         ELSE [ok |-> TRUE,
               body |-> [kind |-> "raw", id |-> groups["raw"][1].name, temp |-> <<>>]]
    ELSE IF groups["body"] # <<>>
    THEN [ok |-> TRUE,
          body |-> [kind |-> "serialize", id |-> "", temp |-> fields_to_struct(groups["body"])]]
    ELSE IF groups["untagged"] # <<>>
    THEN [ok |-> TRUE,
          body |-> [kind |-> "serialize", id |-> "",
                    temp |-> LET t == fields_to_struct(groups["untagged"])
                             IN  [i \in 1..Len(t) |-> t[Len(t) + 1 - i]]]]
    ELSE [ok |-> TRUE, body |-> NoBody]

\* gen_body that takes the first Raw field however many there are.
gen_body_first_raw(groups) ==
    IF groups["raw"] # <<>>
    THEN [ok |-> TRUE,
          body |-> [kind |-> "raw", id |-> groups["raw"][1].name, temp |-> <<>>]]
    ELSE IF groups["body"] # <<>>
    THEN [ok |-> TRUE,
          body |-> [kind |-> "serialize", id |-> "", temp |-> fields_to_struct(groups["body"])]]
    ELSE IF groups["untagged"] # <<>>
    THEN [ok |-> TRUE,
          body |-> [kind |-> "serialize", id |-> "",
                    temp |-> fields_to_struct(groups["untagged"])]]
    ELSE [ok |-> TRUE, body |-> NoBody]

\* gen_body: the Raw field, else the Body fields, else the Untagged fields,
\* else no body method; two Raw fields are an error.
gen_body(groups) ==
    IF groups["raw"] # <<>>
    THEN IF Len(groups["raw"]) > 1 THEN [ok |-> FALSE, body |-> NoBody]
         ELSE [ok |-> TRUE,
               body |-> [kind |-> "raw", id |-> groups["raw"][1].name, temp |-> <<>>]]
    ELSE IF groups["body"] # <<>>
    THEN [ok |-> TRUE,
          body |-> [kind |-> "serialize", id |-> "", temp |-> fields_to_struct(groups["body"])]]
    ELSE IF groups["untagged"] # <<>>
    THEN [ok |-> TRUE,
          body |-> [kind |-> "serialize", id |-> "",
                    temp |-> fields_to_struct(groups["untagged"])]]
    ELSE [ok |-> TRUE, body |-> NoBody]

NotDerived == [status |-> "pending", by |-> "", err |-> "", groups |-> NoGroups,
               query |-> NoQuery, body |-> NoBody]
DeriveError == [status |-> "error", by |-> "derive", err |-> "", groups |-> NoGroups,
                query |-> NoQuery, body |-> NoBody]

\* A generated __Temp struct names a field twice (rustc E0124).
declared_twice(temp) == \E i, j \in 1..Len(temp) : i # j /\ temp[i].name = temp[j].name

\* endpoint_derive: the field attributes, then the query and body methods;
\* the impl it returns must then compile.
endpoint_derive(fs) ==
    LET field_attrs == field_attributes(fs, NoGroups)
    IN  IF ~field_attrs.ok THEN [DeriveError EXCEPT !.err = "field attribute"]
        ELSE LET query == gen_query(field_attrs.groups)
                 body  == gen_body(field_attrs.groups)
             IN  IF ~body.ok
                 THEN [DeriveError EXCEPT !.err = "May only mark one field as raw",
                                          !.groups = field_attrs.groups]
                 ELSE IF declared_twice(query.temp) \/ declared_twice(body.body.temp)
                 THEN [DeriveError EXCEPT !.err = "field is already declared",
                                          !.groups = field_attrs.groups]
                 ELSE [status |-> "ok", by |-> "derive", err |-> "",
                       groups |-> field_attrs.groups, query |-> query, body |-> body.body]

----------------------------------------------------------------------------
(* The generated methods at run time, and Endpoint::request / url *)

UnitObject == [kind |-> "unit", members |-> <<>>]

\* `let __temp = __Temp { id: &self.id, ... }`
temp_object(temp, inst) ==
    [kind |-> "struct",
     members |-> [i \in 1..Len(temp) |->
                    [name |-> temp[i].name, skip_if_none |-> temp[i].skip_if_none,
                     val |-> inst[temp[i].name]]]]

OptNone == [ok |-> TRUE, err |-> "", opt |-> None]

\* Endpoint::query: the trait's default Ok(None), or the generated method.
endpoint_query(d, inst) ==
    IF d.query.kind = "none" THEN OptNone
    ELSE LET q == build_query(temp_object(d.query.temp, inst))
         IN  IF q.ok THEN [ok |-> TRUE, err |-> "", opt |-> Some(q.s)]
             ELSE [ok |-> FALSE, err |-> q.err, opt |-> None]

\* Endpoint::body: the trait's default Ok(None), the generated method (the
\* raw field's clone, or build_body of __temp), or a hand-written method that
\* hands the unit value to build_body.
endpoint_body(d, inst) ==
    CASE d.body.kind = "none" -> OptNone
      [] d.body.kind = "raw" -> [ok |-> TRUE, err |-> "", opt |-> Some(inst[d.body.id].v)]
      [] d.body.kind = "unit" ->
            LET b == build_body(UnitObject)
            IN  [ok |-> b.ok, err |-> b.err, opt |-> IF b.ok THEN Some(b.bytes) ELSE None]
      [] OTHER ->
            LET b == build_body(temp_object(d.body.temp, inst))
            IN  [ok |-> b.ok, err |-> b.err, opt |-> IF b.ok THEN Some(b.bytes) ELSE None]

\* Endpoint::url
endpoint_url(d, inst, base, path) ==
    LET q == endpoint_query(d, inst)
    IN  IF ~q.ok THEN [kind |-> "err", err |-> q.err, uri |-> <<>>]
        ELSE build_url(base, path, q.opt)

\* Endpoint::request: query()?, then body()?, then build_request.
endpoint_request(d, inst, base, path, m) ==
    LET q == endpoint_query(d, inst)
        b == endpoint_body(d, inst)
    IN  IF ~q.ok THEN [kind |-> "err", err |-> q.err, req |-> NoRequest]
        ELSE IF ~b.ok THEN [kind |-> "err", err |-> b.err, req |-> NoRequest]
        ELSE build_request(base, path, m, q.opt, b.opt)

----------------------------------------------------------------------------
(* Deriving and building bounded endpoints *)

MaxFields == 2

\* enum RequestMethod
AllMethods == {"CONNECT", "DELETE", "GET", "HEAD", "LIST", "OPTIONS", "PATCH",
               "POST", "PUT", "TRACE"}
DeriveMethods == {"GET", "POST"}
DeriveBase == <<SpecialOrigin>>
DerivePath == <<"p">>

Untagged == <<>>
Attr(ms) == <<ms>>

\* The fields a struct may declare: type, endpoint attributes, and the value
\* the instance holds.
FieldChoices ==
    ( { [ty |-> TString, val |-> StrVal(<<"v">>)],
        [ty |-> TOption, val |-> NoneVal],
        [ty |-> TOption, val |-> SomeVal(<<"v">>)] }
      \X {Untagged, Attr(<<"body">>), Attr(<<"query">>), Attr(<<"skip">>)} )
    \cup
    { <<[ty |-> TString, val |-> StrVal(<<"v">>)], Attr(<<"skip", "body">>)>>,
      <<[ty |-> TString, val |-> StrVal(<<"v">>)], Attr(<<"skip", "query">>)>>,
      <<[ty |-> TString, val |-> StrVal(<<"v">>)], <<<<"query">>, <<"body">>>> >>,
      <<[ty |-> TStdOption, val |-> NoneVal], Attr(<<"body">>)>>,
      <<[ty |-> TModOption, val |-> NoneVal], Attr(<<"body">>)>>,
      <<[ty |-> TModOption, val |-> NoneVal], Attr(<<"query">>)>>,
      <<[ty |-> TModOption, val |-> SomeVal(<<"v">>)], Untagged>>,
      <<[ty |-> TVecU8, val |-> BytesVal(<<"s">>)], Attr(<<"raw">>)>>,
      <<[ty |-> TVecU8, val |-> BytesVal(JsonEmptyObject)], Attr(<<"raw">>)>>,
      <<[ty |-> TVecU8, val |-> BytesVal(<<"s">>)], Attr(<<"raw", "body">>)>>,
      <<[ty |-> TString, val |-> StrVal(<<"v">>)], Attr(<<"bogus">>)>>,
      <<[ty |-> TString, val |-> StrVal(<<"v">>)], Attr(<<"body", "body">>)>>,
      <<[ty |-> TString, val |-> StrVal(<<"v">>)], Attr(<<"body", "Body">>)>>,
      <<[ty |-> TString, val |-> StrVal(<<"v">>)], Attr(<<>>)>> }

FieldName(i) == "f" \o ToString(i)

NotBuilt == [called |-> FALSE, query |-> OptNone, body |-> OptNone,
             request |-> [kind |-> "not_called", err |-> "", req |-> NoRequest],
             url |-> NotCalled]

DeriveInit ==
    /\ fields = <<>>
    /\ self = <<>>
    /\ method = ""
    /\ derived = NotDerived
    /\ built = NotBuilt

\* The struct declares one more field, and the instance holds a value for it.
DeclareField ==
    /\ derived.status = "pending"
    /\ Len(fields) < MaxFields
    /\ \E c \in FieldChoices :
          LET name == FieldName(Len(fields) + 1)
          IN  /\ fields' = Append(fields, [name |-> name, ty |-> c[1].ty, attrs |-> c[2]])
              /\ self' = self @@ (name :> c[1].val)
    /\ UNCHANGED <<method, derived, built>>

\* #[derive(Endpoint)] runs on the struct.
Derive ==
    /\ derived.status = "pending"
    /\ \E m \in DeriveMethods : method' = m
    /\ derived' = endpoint_derive(fields)
    /\ UNCHANGED <<fields, self, built>>

\* A field-less endpoint implemented by hand, whose body() serializes ().
ImplementByHand ==
    /\ derived.status = "pending"
    /\ fields = <<>>
    /\ \E m \in DeriveMethods : method' = m
    /\ derived' = [status |-> "ok", by |-> "hand", err |-> "", groups |-> NoGroups,
                   query |-> NoQuery,
                   body |-> [kind |-> "unit", id |-> "", temp |-> <<>>]]
    /\ UNCHANGED <<fields, self, built>>

\* The instance's query(), body(), request(base) and url(base) are called.
CallRequest ==
    /\ derived.status = "ok"
    /\ ~built.called
    /\ built' = [called |-> TRUE,
                 query |-> endpoint_query(derived, self),
                 body |-> endpoint_body(derived, self),
                 request |-> endpoint_request(derived, self, DeriveBase, DerivePath, method),
                 url |-> endpoint_url(derived, self, DeriveBase, DerivePath)]
    /\ UNCHANGED <<fields, self, method, derived>>

----------------------------------------------------------------------------
(* Client::execute: the status classification on top of send *)

\* client.rs: const HTTP_SUCCESS_CODES: RangeInclusive<u16> = 200..=208, with
\* a variant whose upper end is exclusive.
HTTP_SUCCESS_CODES_upper_exclusive == 200..207
HTTP_SUCCESS_CODES == 200..208

\* A byte that is not valid UTF-8 is the token "0xFF".
InvalidByte == "0xFF"

\* String::from_utf8(body).ok()
from_utf8_ok(body) == IF InvalidByte \in Range(body) THEN None ELSE Some(body)

NoResponse == [status |-> 0, body |-> <<>>]
NoOutcome == [kind |-> "none", err |-> "", origin |-> "", code |-> 0, content |-> None,
              response |-> NoResponse, ty |-> ""]
ErrOutcome(e, from) == [NoOutcome EXCEPT !.kind = "err", !.err = e, !.origin = from]
\* A ServerResponseError that drops the body.
ServerResponseError_no_content(response) ==
    [NoOutcome EXCEPT !.kind = "err", !.err = "ServerResponseError", !.origin = "status",
                      !.code = response.status]

ServerResponseError(response) ==
    [NoOutcome EXCEPT !.kind = "err", !.err = "ServerResponseError", !.origin = "status",
                      !.code = response.status, !.content = from_utf8_ok(response.body)]
OkResponse(response) == [NoOutcome EXCEPT !.kind = "ok", !.response = response]

\* client::Client::execute after `self.send(req).await?` returned a response.
client_execute(response) ==
    IF response.status \notin HTTP_SUCCESS_CODES
    THEN ServerResponseError(response)
    ELSE OkResponse(response)

\* A blocking execute that takes every 2xx status for a success.
blocking_client_execute_any_2xx(response) ==
    IF response.status < 200 \/ response.status > 299
    THEN ServerResponseError(response)
    ELSE OkResponse(response)

\* blocking::client::Client::execute after `self.send(req)?` returned a response.
blocking_client_execute(response) ==
    IF response.status \notin HTTP_SUCCESS_CODES
    THEN ServerResponseError(response)
    ELSE OkResponse(response)

----------------------------------------------------------------------------
(* EndpointResult: parse, raw and wrap over serde_json::from_slice *)

\* A JSON value as serde_json reads it.
JNull == [t |-> "null", s |-> <<>>, members |-> <<>>]
JStr(x) == [t |-> "str", s |-> x, members |-> <<>>]
JNum(x) == [t |-> "num", s |-> <<x>>, members |-> <<>>]
JObj(ms) == [t |-> "obj", s |-> <<>>, members |-> ms]
JFail == [ok |-> FALSE, val |-> JNull, rest |-> <<>>]

\* The number literals of the model: "30" is one token.
NumberTokens == {"30"}

\* serde_json's reader on the JSON the model writes: null, a number, a
\* string (no escapes) and an object; anything else, and the end of the
\* input where a value is expected, is a syntax error.
RECURSIVE json_read_value(_), json_read_members(_, _)
json_read_value(s) ==
    IF s = <<>> THEN JFail
    ELSE IF Head(s) = "n"
    THEN IF Len(s) >= 4 /\ SubSeq(s, 1, 4) = JsonNull
         THEN [ok |-> TRUE, val |-> JNull, rest |-> SubSeq(s, 5, Len(s))]
         ELSE JFail
    ELSE IF Head(s) \in NumberTokens
    THEN [ok |-> TRUE, val |-> JNum(Head(s)), rest |-> Tail(s)]
    ELSE IF Head(s) = Quote
    THEN LET j == FirstIn(Tail(s), {Quote})
         IN  IF j > Len(s) - 1 THEN JFail
             ELSE [ok |-> TRUE, val |-> JStr(SubSeq(s, 2, j)),
                   rest |-> SubSeq(s, j + 2, Len(s))]
    ELSE IF Head(s) = "{"
    THEN IF Len(s) >= 2 /\ s[2] = "}"
         THEN [ok |-> TRUE, val |-> JObj(<<>>), rest |-> SubSeq(s, 3, Len(s))]
         ELSE json_read_members(Tail(s), <<>>)
    ELSE JFail

\* The members of an object after '{' or ',': "name":value, then ',' or '}'.
json_read_members(s, acc) ==
    IF s = <<>> \/ Head(s) # Quote THEN JFail
    ELSE LET j == FirstIn(Tail(s), {Quote})
         IN  IF j > Len(s) - 1 \/ j + 2 > Len(s) \/ s[j + 2] # ":" THEN JFail
             ELSE LET name == SubSeq(s, 2, j)
                      v    == json_read_value(SubSeq(s, j + 3, Len(s)))
                  IN  IF ~v.ok \/ v.rest = <<>> THEN JFail
                      ELSE LET ms == Append(acc, [name |-> name, val |-> v.val])
                           IN  IF Head(v.rest) = "}"
                               THEN [ok |-> TRUE, val |-> JObj(ms), rest |-> Tail(v.rest)]
                               ELSE IF Head(v.rest) = ","
                               THEN json_read_members(Tail(v.rest), ms)
                               ELSE JFail

\* A whole document: one value and nothing after it.
json_read(s) ==
    LET r == json_read_value(s)
    IN  IF r.ok /\ r.rest = <<>> THEN [ok |-> TRUE, val |-> r.val]
        ELSE [ok |-> FALSE, val |-> JNull]

\* The types a response is deserialized into.
TyUnit == [k |-> "unit", fields |-> <<>>]
TyU8 == [k |-> "u8", fields |-> <<>>]
TyString == [k |-> "String", fields |-> <<>>]
TyOptString == [k |-> "Option<String>", fields |-> <<>>]
TyStruct(fs) == [k |-> "struct", fields |-> fs]

\* A deserialized value.
DUnit == [kind |-> "unit", v |-> <<>>, members |-> <<>>]
DNone == [kind |-> "none", v |-> <<>>, members |-> <<>>]
DFail == [ok |-> FALSE, val |-> DUnit]
DOk(val) == [ok |-> TRUE, val |-> val]

\* Deserialize for the types above, as serde derives it: () reads null; u8 a
\* number; String a string; Option<String> null or a string; a struct reads
\* an object, ignores unknown names, rejects a name given twice, and a
\* missing member is an error unless its type is an Option.
RECURSIVE deserialize(_, _), deserialize_fields(_, _, _)
deserialize(ty, j) ==
    CASE ty.k = "unit" -> IF j.t = "null" THEN DOk(DUnit) ELSE DFail
      [] ty.k = "u8" ->
            IF j.t = "num" THEN DOk([kind |-> "u8", v |-> j.s, members |-> <<>>]) ELSE DFail
      [] ty.k = "String" ->
            IF j.t = "str" THEN DOk([kind |-> "str", v |-> j.s, members |-> <<>>]) ELSE DFail
      [] ty.k = "Option<String>" ->
            IF j.t = "null" THEN DOk(DNone)
            ELSE IF j.t = "str" THEN DOk([kind |-> "some", v |-> j.s, members |-> <<>>])
            ELSE DFail
      [] OTHER ->
            IF j.t = "obj" THEN deserialize_fields(ty.fields, j.members, <<>>) ELSE DFail

deserialize_fields(fs, ms, acc) ==
    IF fs = <<>> THEN DOk([kind |-> "struct", v |-> <<>>, members |-> acc])
    ELSE LET f    == Head(fs)
             hits == SelectSeq(ms, LAMBDA m : m.name = <<f.name>>)
         IN  IF Len(hits) > 1 THEN DFail
             ELSE IF hits = <<>>
             THEN IF f.ty.k = "Option<String>"
                  THEN deserialize_fields(Tail(fs), ms,
                                          Append(acc, [name |-> f.name, val |-> DNone]))
                  ELSE DFail
             ELSE LET d == deserialize(f.ty, hits[1].val)
                  IN  IF ~d.ok THEN DFail
                      ELSE deserialize_fields(Tail(fs), ms,
                                              Append(acc, [name |-> f.name, val |-> d.val]))

\* serde_json::from_slice::<ty>(body)
serde_json_from_slice(ty, body) ==
    LET j == json_read(body)
    IN  IF ~j.ok THEN DFail ELSE deserialize(ty, j.val)

\* What a call on an EndpointResult returns.
NoCallOutcome == [kind |-> "", err |-> "", val |-> DUnit, content |-> None, bytes |-> <<>>]

\* from_slice's Result mapped by parse / wrap: Ok(value), or
\* ResponseParseError { source, content: String::from_utf8(body).ok() }.
from_slice_outcome(ty, body) ==
    LET d == serde_json_from_slice(ty, body)
    IN  IF d.ok THEN [NoCallOutcome EXCEPT !.kind = "ok", !.val = d.val]
        ELSE [NoCallOutcome EXCEPT !.kind = "err", !.err = "ResponseParseError",
                                   !.content = from_utf8_ok(body)]

\* EndpointResult::parse (ResponseType::JSON)
EndpointResult_parse(r) == from_slice_outcome(r.ty, r.response.body)

\* EndpointResult::raw
EndpointResult_raw(r) == [NoCallOutcome EXCEPT !.kind = "ok", !.bytes = r.response.body]

\* EndpointResult::wrap::<W> (ResponseType::JSON)
EndpointResult_wrap(r) == from_slice_outcome(r.wty, r.response.body)

\* A parse that takes the body out of the response it reads.
call_parse_taking_body(r) ==
    [r EXCEPT !.calls = Append(@, [op |-> "parse", out |-> EndpointResult_parse(r)]),
              !.response.body = <<>>]

\* One call through &self: the outcome is handed to the caller, the
\* EndpointResult is left as it was.
call_parse(r) == [r EXCEPT !.calls = Append(@, [op |-> "parse", out |-> EndpointResult_parse(r)])]
call_raw(r) == [r EXCEPT !.calls = Append(@, [op |-> "raw", out |-> EndpointResult_raw(r)])]
call_wrap(r) == [r EXCEPT !.calls = Append(@, [op |-> "wrap", out |-> EndpointResult_wrap(r)])]

----------------------------------------------------------------------------
(* Calls on bounded EndpointResults *)

MaxCalls == 3

\* struct TestResponse { age: u8 } and TestGenericWrapper<T> { result: T }
TestResponse == TyStruct(<<[name |-> "age", ty |-> TyU8]>>)
TestGenericWrapper(ty) == TyStruct(<<[name |-> "result", ty |-> ty]>>)

AgeBody == <<"{", Quote, "age", Quote, ":", "30", "}">>
WrappedAgeBody == <<"{", Quote, "result", Quote, ":">> \o AgeBody \o <<"}">>

\* Response bodies as they may arrive: empty, well formed, malformed.
ParseBodies ==
    { <<>>, AgeBody, WrappedAgeBody, JsonNull, JsonEmptyObject, <<"o", "k">>,
      <<"{", Quote, "age", Quote, ":">>, <<InvalidByte>> }

\* Values with a symmetric serializer: (), and structs of String and
\* Option<String> members (an Option member skipped when None, or written
\* as null).
RoundTripMembers ==
    { [skip_if_none |-> FALSE, val |-> StrVal(<<"v">>)],
      [skip_if_none |-> TRUE, val |-> NoneVal],
      [skip_if_none |-> TRUE, val |-> SomeVal(<<"v">>)],
      [skip_if_none |-> FALSE, val |-> NoneVal] }
RoundTripObjects ==
    {UnitObject}
    \cup { [kind |-> "struct",
            members |-> [i \in 1..Len(ms) |->
                           [name |-> FieldName(i), skip_if_none |-> ms[i].skip_if_none,
                            val |-> ms[i].val]]] :
           ms \in SeqsUpTo(RoundTripMembers, 2) }

\* The type an object of the model is an instance of.
type_of(object) ==
    IF object.kind = "unit" THEN TyUnit
    ELSE TyStruct([i \in 1..Len(object.members) |->
                     [name |-> object.members[i].name,
                      ty |-> IF object.members[i].val.kind = "str" THEN TyString
                             ELSE TyOptString]])

NoObject == [kind |-> "absent", members |-> <<>>]

\* EndpointResult::new(response, ty) with nothing called on it yet.
EndpointResult_new(body, ty, wty, value) ==
    [response |-> [status |-> 200, body |-> body], ty |-> ty, wty |-> wty,
     value |-> value, calls |-> <<>>]

ResIdle == EndpointResult_new(<<>>, TyUnit, TyUnit, NoObject)

\* Either a response as a server may send it, or the bytes build_body makes
\* of a value, to be parsed as that value's type.
ResInit ==
    res \in { EndpointResult_new(b, ty, TestGenericWrapper(ty), NoObject) :
                 b \in ParseBodies, ty \in {TyUnit, TestResponse} }
            \cup { EndpointResult_new(build_body(v).bytes, type_of(v),
                                      TestGenericWrapper(type_of(v)), v) :
                      v \in RoundTripObjects }

CallParse ==
    /\ Len(res.calls) < MaxCalls
    /\ res' = call_parse(res)

CallRaw ==
    /\ Len(res.calls) < MaxCalls
    /\ res' = call_raw(res)

CallWrap ==
    /\ Len(res.calls) < MaxCalls
    /\ res' = call_wrap(res)

----------------------------------------------------------------------------
(* One execution: Endpoint::exec / exec_block, with or without middleware *)

\* The endpoints the pipeline executes: a derived struct with its instance.
EndpointSamples ==
    << \* #[endpoint(path = "p", response = "TestResponse")] struct Test {}
       [fields |-> <<>>, inst |-> <<>>, method |-> "GET", path |-> <<"p">>,
        response |-> TestResponse],
       \* #[endpoint(path = "p", method = "POST")] struct Test { f1: String }
       [fields |-> <<[name |-> "f1", ty |-> TString, attrs |-> Untagged]>>,
        inst |-> [f1 |-> StrVal(<<"v">>)], method |-> "POST", path |-> <<"p">>,
        response |-> TyUnit],
       \* ... struct Test { #[endpoint(query)] f1: Vec<u8> }: query() fails
       [fields |-> <<[name |-> "f1", ty |-> TVecU8, attrs |-> Attr(<<"query">>)]>>,
        inst |-> [f1 |-> BytesVal(<<"s">>)], method |-> "GET", path |-> <<"p">>,
        response |-> TyUnit] >>

\* client.base(): a well-formed base, or one Url::parse rejects.
ClientBases == {<<SpecialOrigin>>, <<"h">>}

\* What the transport's send may answer.
Statuses == {199, 200, 204, 208, 209, 500}
ResponseBodies == {<<>>, <<"o", "k">>, <<InvalidByte>>, AgeBody, WrappedAgeBody}
SendOutcomes ==
    {[kind |-> "err", response |-> NoResponse]}
    \cup {[kind |-> "resp", response |-> [status |-> s, body |-> b]] :
            s \in Statuses, b \in ResponseBodies}

\* What a middleware hook may do: fail, or return Ok after a mutation.
RequestHookOutcomes == {"fail", "pass", "add_header", "set_body"}
\* "middle" is the Middle of tests/common.rs.
ResponseHookOutcomes == {"fail", "pass", "set_body", "middle"}

apply_request_hook(out, req) ==
    CASE out = "add_header" -> [req EXCEPT !.headers = @ \cup {<<"X-API-Token", "mytoken">>}]
      [] out = "set_body" -> [req EXCEPT !.body = <<"m">>]
      [] OTHER -> req

apply_response_hook(out, resp) ==
    CASE out = "set_body" -> [resp EXCEPT !.body = <<"i">>]
      [] OTHER -> resp

\* Value::to_string: a JSON value written back as text.
RECURSIVE json_write(_)
json_write(j) ==
    CASE j.t = "null" -> JsonNull
      [] j.t = "num" -> j.s
      [] j.t = "str" -> <<Quote>> \o j.s \o <<Quote>>
      [] OTHER ->
            <<"{">>
            \o join([i \in 1..Len(j.members) |->
                       <<Quote>> \o j.members[i].name \o <<Quote, ":">>
                       \o json_write(j.members[i].val)],
                    <<",">>)
            \o <<"}">>

\* Middle::response: the body is read as TestWrapper { result: Value } and
\* replaced by the text of `result`; a body that is no such object is a
\* ResponseParseError.
Middle_response(resp) ==
    LET j    == json_read(resp.body)
        hits == SelectSeq(j.val.members, LAMBDA m : m.name = <<"result">>)
    IN  IF j.ok /\ j.val.t = "obj" /\ Len(hits) = 1
        THEN [ok |-> TRUE, err |-> "", resp |-> [resp EXCEPT !.body = json_write(hits[1].val)]]
        ELSE [ok |-> FALSE, err |-> "ResponseParseError", resp |-> resp]

\* MiddleWare::response on the received response: Err, or Ok with the
\* response as the hook left it.
response_hook(out, resp) ==
    CASE out = "fail" -> [ok |-> FALSE, err |-> "GenericError", resp |-> resp]
      [] out = "middle" -> Middle_response(resp)
      [] OTHER -> [ok |-> TRUE, err |-> "", resp |-> apply_response_hook(out, resp)]

ExStart(ep, mw, mode, base) ==
    [pc |-> "build", ep |-> ep, mw |-> mw, mode |-> mode, base |-> base,
     built |-> NoRequest, req_hook |-> "", req |-> NoRequest, sent |-> NoRequest,
     answer |-> [kind |-> "none", response |-> NoResponse], executed |-> NoOutcome,
     resp |-> NoResponse, resp_hook |-> "", result |-> NoOutcome, log |-> <<>>,
     parsed |-> NoCallOutcome, inner |-> FALSE]

\* Endpoint::with_middleware: MutatedEndpoint::new(self, middleware).  On a
\* plain endpoint it attaches the middleware; on a MutatedEndpoint the new
\* middleware is the outer one and the endpoint keeps the old one inside.
with_middleware(x) == IF x.mw THEN [x EXCEPT !.inner = TRUE] ELSE [x EXCEPT !.mw = TRUE]

\* An exec that goes on to send after request() failed.
exec_request_sending_anyway(x) ==
    LET e == EndpointSamples[x.ep]
        r == endpoint_request(endpoint_derive(e.fields), e.inst, x.base, e.path, e.method)
    IN  IF r.kind = "ok"
        THEN [x EXCEPT !.built = r.req, !.req = r.req, !.log = Append(@, "build"),
                       !.pc = IF x.mw THEN "on_request" ELSE "send"]
        ELSE [x EXCEPT !.log = Append(@, "build"), !.pc = "send"]

\* Endpoint::request (build_request), the first statement of exec.
exec_request(x) ==
    LET e == EndpointSamples[x.ep]
        r == endpoint_request(endpoint_derive(e.fields), e.inst, x.base, e.path, e.method)
    IN  IF r.kind = "ok"
        THEN [x EXCEPT !.built = r.req, !.req = r.req, !.log = Append(@, "build"),
                       !.pc = IF x.mw THEN "on_request" ELSE "send"]
        ELSE IF r.kind = "panic"
        THEN [x EXCEPT !.log = Append(@, "build"), !.pc = "panicked"]
        ELSE [x EXCEPT !.log = Append(@, "build"), !.pc = "done",
                       !.result = ErrOutcome(r.err, "build")]

\* A MutatedEndpoint::request that also runs the hook of the middleware
\* inside the wrapped endpoint.
middleware_request_through_inner(x, out) ==
    IF out = "fail"
    THEN [x EXCEPT !.log = Append(@, "on_request"), !.pc = "done", !.req_hook = out,
                   !.result = ErrOutcome("GenericError", "on_request")]
    ELSE [x EXCEPT !.log = IF x.inner THEN @ \o <<"inner_on_request", "on_request">>
                           ELSE Append(@, "on_request"),
                   !.pc = "send", !.req_hook = out,
                   !.req = apply_request_hook(out, @)]

\* MutatedEndpoint::request that returns the request without calling the hook.
middleware_request_skipped(x, out) == [x EXCEPT !.pc = "send", !.req_hook = out]

\* MutatedEndpoint::request after build_request: `self.middleware.request(self, &mut req)?`
middleware_request(x, out) ==
    IF out = "fail"
    THEN [x EXCEPT !.log = Append(@, "on_request"), !.pc = "done", !.req_hook = out,
                   !.result = ErrOutcome("GenericError", "on_request")]
    ELSE [x EXCEPT !.log = Append(@, "on_request"), !.pc = "send", !.req_hook = out,
                   !.req = apply_request_hook(out, @)]

\* A client that keeps the request to send in one slot shared by all the
\* executions in progress.
client_send_shared_slot(x) ==
    [x EXCEPT !.log = Append(@, "send"), !.pc = "awaiting",
              !.sent = IF exs # <<>> THEN exs[1].req ELSE x.req]

\* exec_mut / exec / exec_block_mut / exec_block: `client.execute(req)` hands
\* the request to `self.send(req)`.
client_send(x) ==
    [x EXCEPT !.log = Append(@, "send"), !.pc = "awaiting", !.sent = x.req]

\* An exec_mut that hands the middleware a response after send failed.
client_receive_then_hook(x, answer) ==
    IF answer.kind = "err"
    THEN [x EXCEPT !.pc = IF x.mw THEN "on_response" ELSE "result", !.answer = answer,
                   !.executed = ErrOutcome("RequestError", "send"), !.resp = answer.response]
    ELSE LET r == IF x.mode = "async" THEN client_execute(answer.response)
                  ELSE blocking_client_execute(answer.response)
         IN  IF r.kind = "err"
             THEN [x EXCEPT !.pc = "done", !.answer = answer, !.executed = r,
                            !.result = r]
             ELSE [x EXCEPT !.pc = IF x.mw THEN "on_response" ELSE "result",
                            !.answer = answer, !.executed = r, !.resp = r.response]

\* An exec_mut that hands a response outside the success codes to the hook.
client_receive_hook_on_failure(x, answer) ==
    IF answer.kind = "err"
    THEN [x EXCEPT !.pc = "done", !.answer = answer,
                   !.executed = ErrOutcome("RequestError", "send"),
                   !.result = ErrOutcome("RequestError", "send")]
    ELSE LET r == IF x.mode = "async" THEN client_execute(answer.response)
                  ELSE blocking_client_execute(answer.response)
         IN  [x EXCEPT !.pc = IF x.mw THEN "on_response" ELSE "result",
                       !.answer = answer, !.executed = r, !.resp = answer.response]

\* An exec that sends the request a second time after send failed once.
client_receive_retry(x, answer) ==
    IF answer.kind = "err"
    THEN IF Len(SelectSeq(x.log, LAMBDA e : e = "send")) < 2
         THEN [x EXCEPT !.pc = "send"]
         ELSE [x EXCEPT !.pc = "done", !.answer = answer,
                        !.executed = ErrOutcome("RequestError", "send"),
                        !.result = ErrOutcome("RequestError", "send")]
    ELSE LET r == IF x.mode = "async" THEN client_execute(answer.response)
                  ELSE blocking_client_execute(answer.response)
         IN  IF r.kind = "err"
             THEN [x EXCEPT !.pc = "done", !.answer = answer, !.executed = r,
                            !.result = r]
             ELSE [x EXCEPT !.pc = IF x.mw THEN "on_response" ELSE "result",
                            !.answer = answer, !.executed = r, !.resp = r.response]

\* send has answered: its error is returned (`?`), its response is classified
\* by execute, and a classified failure is returned by exec_mut's `?`.
client_receive(x, answer) ==
    IF answer.kind = "err"
    THEN [x EXCEPT !.pc = "done", !.answer = answer,
                   !.executed = ErrOutcome("RequestError", "send"),
                   !.result = ErrOutcome("RequestError", "send")]
    ELSE LET r == IF x.mode = "async" THEN client_execute(answer.response)
                  ELSE blocking_client_execute(answer.response)
         IN  IF r.kind = "err"
             THEN [x EXCEPT !.pc = "done", !.answer = answer, !.executed = r,
                            !.result = r]
             ELSE [x EXCEPT !.pc = IF x.mw THEN "on_response" ELSE "result",
                            !.answer = answer, !.executed = r, !.resp = r.response]

\* An exec_mut whose response reaches the result without its body once it
\* went through the hook.
middleware_response_dropping_body(x, out) ==
    LET h == response_hook(out, x.resp)
    IN  IF ~h.ok
        THEN [x EXCEPT !.log = Append(@, "on_response"), !.pc = "done", !.resp_hook = out,
                       !.result = ErrOutcome(h.err, "on_response")]
        ELSE [x EXCEPT !.log = Append(@, "on_response"), !.pc = "result", !.resp_hook = out,
                       !.resp = [h.resp EXCEPT !.body = <<>>]]

\* exec_mut that goes on to the result after an on_response failure.
middleware_response_swallowed(x, out) ==
    [x EXCEPT !.log = Append(@, "on_response"), !.pc = "result", !.resp_hook = out,
              !.resp = apply_response_hook(out, @)]

\* exec_mut / exec_block_mut: `middle.response(endpoint, &mut resp)?`
middleware_response(x, out) ==
    LET h == response_hook(out, x.resp)
    IN  IF ~h.ok
        THEN [x EXCEPT !.log = Append(@, "on_response"), !.pc = "done", !.resp_hook = out,
                       !.result = ErrOutcome(h.err, "on_response")]
        ELSE [x EXCEPT !.log = Append(@, "on_response"), !.pc = "result", !.resp_hook = out,
                       !.resp = h.resp]

\* An EndpointResult made of the response send returned.
endpoint_result_of_received(x) ==
    [x EXCEPT !.log = Append(@, "result"), !.pc = "done",
              !.result = [NoOutcome EXCEPT !.kind = "ok", !.response = x.answer.response,
                                           !.ty = "JSON"]]

\* An exec that deserializes the body before it returns.
endpoint_result_parsing(x) ==
    IF from_slice_outcome(EndpointSamples[x.ep].response, x.resp.body).kind = "err"
    THEN [x EXCEPT !.log = Append(@, "result"), !.pc = "done",
                   !.result = ErrOutcome("ResponseParseError", "result")]
    ELSE [x EXCEPT !.log = Append(@, "result"), !.pc = "done",
                   !.result = [NoOutcome EXCEPT !.kind = "ok", !.response = x.resp,
                                                !.ty = "JSON"]]

\* `Ok(EndpointResult::new(resp, Self::RESPONSE_BODY_TYPE))`
endpoint_result(x) ==
    [x EXCEPT !.log = Append(@, "result"), !.pc = "done",
              !.result = [NoOutcome EXCEPT !.kind = "ok", !.response = x.resp, !.ty = "JSON"]]

\* Endpoint::exec / exec_block (MutatedEndpoint's with middleware) from start
\* to return, for given hook outcomes and a given answer of send.
exec(x, req_out, answer, resp_out) ==
    LET a == exec_request(x)
        b == IF a.pc = "on_request" THEN middleware_request(a, req_out) ELSE a
        c == IF b.pc = "send" THEN client_send(b) ELSE b
        d == IF c.pc = "awaiting" THEN client_receive(c, answer) ELSE c
        e == IF d.pc = "on_response" THEN middleware_response(d, resp_out) ELSE d
    IN  IF e.pc = "result" THEN endpoint_result(e) ELSE e

\* The caller calls parse() on the EndpointResult exec returned.
parse_result(x) ==
    LET ty == EndpointSamples[x.ep].response
    IN  [x EXCEPT !.pc = "parsed",
                  !.parsed = EndpointResult_parse(
                                [EndpointResult_new(x.result.response.body, ty,
                                                    TestGenericWrapper(ty), NoObject)
                                 EXCEPT !.response = x.result.response])]

\* A plain endpoint, one with a middleware, or one with a second middleware
\* applied over the first.
ExInit ==
    \E ep \in 1..Len(EndpointSamples), layers \in 0..2,
       mode \in {"async", "blocking"}, base \in ClientBases :
        LET plain == ExStart(ep, FALSE, mode, base)
        IN  ex = CASE layers = 0 -> plain
                   [] layers = 1 -> with_middleware(plain)
                   [] OTHER -> with_middleware(with_middleware(plain))

Request ==
    /\ ex.pc = "build"
    /\ ex' = exec_request(ex)

OnRequest ==
    /\ ex.pc = "on_request"
    /\ \E out \in RequestHookOutcomes : ex' = middleware_request(ex, out)

Send ==
    /\ ex.pc = "send"
    /\ ex' = client_send(ex)

Receive ==
    /\ ex.pc = "awaiting"
    /\ \E answer \in SendOutcomes : ex' = client_receive(ex, answer)

OnResponse ==
    /\ ex.pc = "on_response"
    /\ \E out \in ResponseHookOutcomes : ex' = middleware_response(ex, out)

Result ==
    /\ ex.pc = "result"
    /\ ex' = endpoint_result(ex)

ParseResult ==
    /\ ex.pc = "done"
    /\ ex.result.kind = "ok"
    /\ ex' = parse_result(ex)

----------------------------------------------------------------------------
(* gen_path: the path literal, and the path() generated from it *)

\* The tokens of a path literal: text, braces, and field expressions.
FieldExprs == {"self.f1", "self.f2"}
TemplateTokens == {"/", "a", "{", "}"} \cup FieldExprs

\* The first match of \{(.*?)\} in s: the first '{' that has a '}' after it,
\* up to the nearest such '}'.  `to` is 0 when there is no match.
first_match(s) ==
    LET opens == {i \in 1..Len(s) : s[i] = "{" /\ \E j \in (i + 1)..Len(s) : s[j] = "}"}
    IN  IF opens = {}
        THEN [from |-> 0, to |-> 0]
        ELSE LET i == CHOOSE k \in opens : \A m \in opens : k <= m
                 j == CHOOSE k \in (i + 1)..Len(s) :
                         s[k] = "}" /\ \A m \in (i + 1)..(k - 1) : s[m] # "}"
             IN  [from |-> i, to |-> j]

\* re.captures_iter(path): group 1 of every match, left to right.
RECURSIVE captures_iter(_)
captures_iter(s) ==
    LET m == first_match(s)
    IN  IF m.to = 0 THEN <<>>
        ELSE <<SubSeq(s, m.from + 1, m.to - 1)>> \o captures_iter(SubSeq(s, m.to + 1, Len(s)))

\* re.replace_all(path, "{}")
RECURSIVE replace_all(_)
replace_all(s) ==
    LET m == first_match(s)
    IN  IF m.to = 0 THEN s
        ELSE SubSeq(s, 1, m.from - 1) \o <<"{", "}">>
             \o replace_all(SubSeq(s, m.to + 1, Len(s)))

\* The length of the run of '/' that starts at s[i].
RECURSIVE slash_run(_, _)
slash_run(s, i) == IF i > Len(s) \/ s[i] # "/" THEN 0 ELSE 1 + slash_run(s, i + 1)

\* The Rust lexer on the capture: `//` and `////...` open a line comment that
\* is dropped, `///` opens a doc comment that stays as a token.
lex(c) ==
    LET starts == {i \in 1..(Len(c) - 1) : c[i] = "/" /\ c[i + 1] = "/"}
    IN  IF starts = {}
        THEN [doc |-> FALSE, code |-> c]
        ELSE LET i == CHOOSE k \in starts : \A m \in starts : k <= m
             IN  [doc |-> slash_run(c, i) = 3, code |-> SubSeq(c, 1, i - 1)]

\* syn::parse_str::<Expr>(&cap[1]): fails on no tokens, an unclosed '{', a
\* doc comment, or a '/' without both operands.
syn_parse_str(c) ==
    LET l == lex(c)
    IN  IF \/ l.doc
           \/ l.code = <<>>
           \/ "{" \in Range(l.code)
           \/ Head(l.code) = "/"
           \/ l.code[Len(l.code)] = "/"
        THEN [ok |-> FALSE, expr |-> <<>>]
        ELSE [ok |-> TRUE, expr |-> l.code]

NoPath == [kind |-> "not_called", out |-> <<>>]
PathError(k) == [kind |-> k, out |-> <<>>]

\* gen_path: `format!(lit, fmt_args...)` when the literal has captures,
\* `String::from(lit)` when it has none, an Error when a capture is no
\* expression.
gen_path(path) ==
    LET caps == captures_iter(path)
    IN  IF \E i \in 1..Len(caps) : ~syn_parse_str(caps[i]).ok
        THEN [kind |-> "derive_error", lit |-> <<>>, fmt_args |-> <<>>]
        ELSE IF caps # <<>>
        THEN [kind |-> "format", lit |-> replace_all(path),
              fmt_args |-> [i \in 1..Len(caps) |-> syn_parse_str(caps[i]).expr]]
        ELSE [kind |-> "from", lit |-> path, fmt_args |-> <<>>]

\* The instance the generated path() is called on.
PathSelf == [e \in FieldExprs |-> IF e = "self.f1" THEN <<"v">> ELSE <<"w">>]

\* An argument of format! type-checks when it is a field of self.
evaluates(expr) == Len(expr) = 1 /\ expr[1] \in FieldExprs

\* format!(lit, args...): `{{` and `}}` are the braces themselves, `{}` is the
\* next argument, any other brace does not compile, and neither does an
\* argument that is left over.
RECURSIVE format(_, _)
format(lit, args) ==
    IF lit = <<>>
    THEN [ok |-> args = <<>>, out |-> <<>>]
    ELSE IF Head(lit) \in {"{", "}"}
    THEN IF Len(lit) < 2 THEN [ok |-> FALSE, out |-> <<>>]
         ELSE IF lit[2] = Head(lit)
         THEN LET r == format(SubSeq(lit, 3, Len(lit)), args)
              IN  [ok |-> r.ok, out |-> <<Head(lit)>> \o r.out]
         ELSE IF Head(lit) = "{" /\ lit[2] = "}" /\ args # <<>>
         THEN LET r == format(SubSeq(lit, 3, Len(lit)), Tail(args))
              IN  [ok |-> r.ok, out |-> Head(args) \o r.out]
         ELSE [ok |-> FALSE, out |-> <<>>]
    ELSE LET r == format(Tail(lit), args)
         IN  [ok |-> r.ok, out |-> <<Head(lit)>> \o r.out]

\* The derived `fn path(&self) -> String { #path }` on PathSelf.
endpoint_path(g) ==
    CASE g.kind = "derive_error" -> PathError("derive_error")
      [] g.kind = "from" -> [kind |-> "ok", out |-> g.lit]
      [] OTHER ->
            IF \E i \in 1..Len(g.fmt_args) : ~evaluates(g.fmt_args[i])
            THEN PathError("compile_error")
            ELSE LET r == format(g.lit, [i \in 1..Len(g.fmt_args) |->
                                            PathSelf[g.fmt_args[i][1]]])
                 IN  IF r.ok THEN [kind |-> "ok", out |-> r.out]
                     ELSE PathError("compile_error")

MaxTemplateLen == 5
Templates == SeqsUpTo(TemplateTokens, MaxTemplateLen)

PathInit ==
    /\ template \in Templates
    /\ path_out = NoPath

CallPath ==
    /\ path_out = NoPath
    /\ path_out' = endpoint_path(gen_path(template))
    /\ UNCHANGED template

----------------------------------------------------------------------------
(* endpoint_derive: the struct's #[endpoint(...)] attribute and Parameters::new *)

\* A nested meta of the attribute: `key = "value"` or a bare `key`.
NameValue(k, v) == [form |-> "name_value", key |-> k, lit |-> v]
BarePath(k) == [form |-> "path", key |-> k, lit |-> ""]

ParamKeys == {"path", "method", "response", "request_type", "response_type", "builder"}

ParamError(e) ==
    [kind |-> "error", err |-> e, path |-> "", method |-> "", response |-> "",
     request_type |-> "", response_type |-> "", builder |-> FALSE]
NotExpanded == [ParamError("") EXCEPT !.kind = "not_expanded"]

\* parse::attr_list on one attribute: its metas, unless it has none.
attr_list(attr) ==
    IF attr = <<>> THEN [ok |-> FALSE, err |-> "Attribute cannot be empty", list |-> <<>>]
    ELSE [ok |-> TRUE, err |-> "", list |-> attr]

\* parse::attr_kv: every meta must be a name/value pair.
attr_kv(attr) ==
    LET l == attr_list(attr)
    IN  IF ~l.ok THEN l
        ELSE IF \E i \in 1..Len(l.list) : l.list[i].form # "name_value"
        THEN [ok |-> FALSE, err |-> "Cannot parse attribute as a key/value list",
              list |-> <<>>]
        ELSE l

\* parse::to_map: HashMap::insert in order, so the last value of a key stays.
\* The map is the set of its keys and the value each holds.
to_map(kv) ==
    [keys |-> {kv[i].key : i \in 1..Len(kv)},
     get  |-> [k \in {kv[i].key : i \in 1..Len(kv)} |->
                 kv[CHOOSE i \in 1..Len(kv) :
                       kv[i].key = k /\ \A j \in (i + 1)..Len(kv) : kv[j].key # k].lit]]

\* Parameters::new without the `_ =>` arm.
Parameters_new_ignoring_unknown(map) ==
    IF "path" \notin map.keys
    THEN ParamError("Missing required parameter: path")
    ELSE [kind |-> "ok", err |-> "",
          path |-> map.get["path"],
          method |-> IF "method" \in map.keys THEN map.get["method"] ELSE "GET",
          response |-> IF "response" \in map.keys THEN map.get["response"] ELSE "()",
          request_type |-> IF "request_type" \in map.keys THEN map.get["request_type"]
                           ELSE "JSON",
          response_type |-> IF "response_type" \in map.keys THEN map.get["response_type"]
                            ELSE "JSON",
          builder |-> "builder" \in map.keys]

\* Parameters::new: a key outside the six is an error in whatever order the
\* keys are visited; then path is required and the others have defaults.
Parameters_new(map) ==
    IF \E k \in map.keys : k \notin ParamKeys
    THEN ParamError("Unknown parameter")
    ELSE IF "path" \notin map.keys
    THEN ParamError("Missing required parameter: path")
    ELSE [kind |-> "ok", err |-> "",
          path |-> map.get["path"],
          method |-> IF "method" \in map.keys THEN map.get["method"] ELSE "GET",
          response |-> IF "response" \in map.keys THEN map.get["response"] ELSE "()",
          request_type |-> IF "request_type" \in map.keys THEN map.get["request_type"]
                           ELSE "JSON",
          response_type |-> IF "response_type" \in map.keys THEN map.get["response_type"]
                            ELSE "JSON",
          builder |-> "builder" \in map.keys]

\* parse_params
parse_params(attr) ==
    LET kv == attr_kv(attr)
    IN  IF ~kv.ok THEN ParamError(kv.err) ELSE Parameters_new(to_map(kv.list))

\* endpoint_derive up to the generated impl: the field attributes, the count
\* of struct attributes, the parameters, then the path, query and body.
expand(attrs, fs) ==
    IF ~field_attributes(fs, NoGroups).ok THEN ParamError("field attribute")
    ELSE IF attrs = <<>>
    THEN ParamError("Deriving Endpoint requires attaching an endpoint attribute")
    ELSE IF Len(attrs) > 1
    THEN ParamError("Cannot define the endpoint attribute more than once")
    ELSE LET ps == parse_params(attrs[1])
         IN  IF ps.kind # "ok" THEN ps
             ELSE IF gen_path(<<ps.path>>).kind = "derive_error"
             THEN ParamError("Failed parsing format argument as expression")
             ELSE IF endpoint_derive(fs).status # "ok" THEN ParamError("body")
             ELSE ps

MaxParams == 2

\* The metas an attribute may hold.
ParamMetas ==
    { NameValue("path", "p"), NameValue("method", "POST"), NameValue("response", "T"),
      NameValue("request_type", "JSON"), NameValue("response_type", "JSON"),
      NameValue("builder", "false"), NameValue("result", "T"), NameValue("Path", "p"),
      BarePath("builder") }
StructAttrs == SeqsUpTo(ParamMetas, MaxParams)

\* No attribute, one, or one followed by a second #[endpoint(path = "p")].
StructAttrLists ==
    {<<>>} \cup {<<a>> : a \in StructAttrs}
    \cup {<<a, <<NameValue("path", "p")>> >> : a \in StructAttrs}

\* No field, or one String field with these #[endpoint(...)] attributes.
ParamFieldAttrs ==
    {Untagged, Attr(<<"body">>), Attr(<<"Body">>), Attr(<<"skip">>), Attr(<<"bogus">>),
     Attr(<<>>)}
ParamFields ==
    {<<>>} \cup {<<[name |-> "f1", ty |-> TString, attrs |-> a]>> : a \in ParamFieldAttrs}

ParamsInit ==
    /\ s_attrs \in StructAttrLists
    /\ p_fields \in ParamFields
    /\ params = NotExpanded

Expand ==
    /\ params = NotExpanded
    /\ params' = expand(s_attrs, p_fields)
    /\ UNCHANGED <<s_attrs, p_fields>>

----------------------------------------------------------------------------
(* Several executions against one client *)

NumExec == 2

\* The endpoints, answers and hook outcomes of the concurrent executions.
ConcurrentEndpoints == {1, 2}
ConcurrentAnswers ==
    { [kind |-> "err", response |-> NoResponse],
      [kind |-> "resp", response |-> [status |-> 200, body |-> AgeBody]],
      [kind |-> "resp", response |-> [status |-> 500, body |-> <<"o", "k">>]] }
ConcurrentRequestHooks == {"pass", "add_header"}
ConcurrentResponseHooks == {"pass", "set_body"}

\* Each execution is an exec() call of its own on a shared `&impl Client`;
\* two of them may be calls on the same endpoint.
ConcurrentInit ==
    exs \in [1..NumExec -> {ExStart(ep, mw, "async", <<SpecialOrigin>>) :
                                ep \in ConcurrentEndpoints, mw \in BOOLEAN}]

RequestOf(i) ==
    /\ exs[i].pc = "build"
    /\ exs' = [exs EXCEPT ![i] = exec_request(@)]

OnRequestOf(i) ==
    /\ exs[i].pc = "on_request"
    /\ \E out \in ConcurrentRequestHooks : exs' = [exs EXCEPT ![i] = middleware_request(@, out)]

SendOf(i) ==
    /\ exs[i].pc = "send"
    /\ exs' = [exs EXCEPT ![i] = client_send(@)]

ReceiveOf(i) ==
    /\ exs[i].pc = "awaiting"
    /\ \E answer \in ConcurrentAnswers : exs' = [exs EXCEPT ![i] = client_receive(@, answer)]

OnResponseOf(i) ==
    /\ exs[i].pc = "on_response"
    /\ \E out \in ConcurrentResponseHooks :
          exs' = [exs EXCEPT ![i] = middleware_response(@, out)]

ResultOf(i) ==
    /\ exs[i].pc = "result"
    /\ exs' = [exs EXCEPT ![i] = endpoint_result(@)]

----------------------------------------------------------------------------
(* Specifications *)

ExIdle == [ExStart(1, FALSE, "async", <<>>) EXCEPT !.pc = "idle"]

UrlIdle ==
    /\ u_base = <<>>
    /\ u_path = <<>>
    /\ u_query = None
    /\ u_out = NotCalled

ParamsIdle ==
    /\ s_attrs = <<>>
    /\ p_fields = <<>>
    /\ params = NotExpanded

ConcurrentIdle == exs = <<>>

PathIdle ==
    /\ template = <<>>
    /\ path_out = NoPath

SpecUrlInit ==
    UrlInit /\ DeriveInit /\ ex = ExIdle /\ res = ResIdle /\ PathIdle /\ ParamsIdle /\ ConcurrentIdle
SpecUrlNext ==
    CallBuildUrl /\ UNCHANGED <<deriveVars, ex, resVars, pathVars, paramVars, concVars>>
SpecUrl == SpecUrlInit /\ [][SpecUrlNext]_vars

SpecDeriveInit ==
    UrlIdle /\ DeriveInit /\ ex = ExIdle /\ res = ResIdle /\ PathIdle /\ ParamsIdle /\ ConcurrentIdle
SpecDeriveNext ==
    \/ DeclareField /\ UNCHANGED <<urlVars, ex, resVars, pathVars, paramVars, concVars>>
    \/ Derive /\ UNCHANGED <<urlVars, ex, resVars, pathVars, paramVars, concVars>>
    \/ ImplementByHand /\ UNCHANGED <<urlVars, ex, resVars, pathVars, paramVars, concVars>>
    \/ CallRequest /\ UNCHANGED <<urlVars, ex, resVars, pathVars, paramVars, concVars>>
SpecDerive == SpecDeriveInit /\ [][SpecDeriveNext]_vars

SpecResultInit ==
    UrlIdle /\ DeriveInit /\ ex = ExIdle /\ ResInit /\ PathIdle /\ ParamsIdle /\ ConcurrentIdle
SpecResultNext ==
    \/ CallParse /\ UNCHANGED <<urlVars, deriveVars, ex, pathVars, paramVars, concVars>>
    \/ CallRaw /\ UNCHANGED <<urlVars, deriveVars, ex, pathVars, paramVars, concVars>>
    \/ CallWrap /\ UNCHANGED <<urlVars, deriveVars, ex, pathVars, paramVars, concVars>>
SpecResult == SpecResultInit /\ [][SpecResultNext]_vars

SpecPathInit ==
    UrlIdle /\ DeriveInit /\ ex = ExIdle /\ res = ResIdle /\ PathInit /\ ParamsIdle /\ ConcurrentIdle
SpecPathNext == CallPath /\ UNCHANGED <<urlVars, deriveVars, ex, resVars, paramVars, concVars>>
SpecPath == SpecPathInit /\ [][SpecPathNext]_vars

SpecParamsInit ==
    UrlIdle /\ DeriveInit /\ ex = ExIdle /\ res = ResIdle /\ PathIdle /\ ParamsInit /\ ConcurrentIdle
SpecParamsNext ==
    Expand /\ UNCHANGED <<urlVars, deriveVars, ex, resVars, pathVars, concVars>>
SpecParams == SpecParamsInit /\ [][SpecParamsNext]_vars

SpecConcurrentInit ==
    UrlIdle /\ DeriveInit /\ ex = ExIdle /\ res = ResIdle /\ PathIdle /\ ParamsIdle
    /\ ConcurrentInit
SpecConcurrentNext ==
    \/ (\E i \in 1..NumExec : RequestOf(i))
            /\ UNCHANGED <<urlVars, deriveVars, ex, resVars, pathVars, paramVars>>
    \/ (\E i \in 1..NumExec : OnRequestOf(i))
            /\ UNCHANGED <<urlVars, deriveVars, ex, resVars, pathVars, paramVars>>
    \/ (\E i \in 1..NumExec : SendOf(i))
            /\ UNCHANGED <<urlVars, deriveVars, ex, resVars, pathVars, paramVars>>
    \/ (\E i \in 1..NumExec : ReceiveOf(i))
            /\ UNCHANGED <<urlVars, deriveVars, ex, resVars, pathVars, paramVars>>
    \/ (\E i \in 1..NumExec : OnResponseOf(i))
            /\ UNCHANGED <<urlVars, deriveVars, ex, resVars, pathVars, paramVars>>
    \/ (\E i \in 1..NumExec : ResultOf(i))
            /\ UNCHANGED <<urlVars, deriveVars, ex, resVars, pathVars, paramVars>>
SpecConcurrent == SpecConcurrentInit /\ [][SpecConcurrentNext]_vars

Init ==
    UrlIdle /\ DeriveInit /\ ExInit /\ res = ResIdle /\ PathIdle /\ ParamsIdle /\ ConcurrentIdle
Next ==
    \/ Request /\ UNCHANGED <<urlVars, deriveVars, resVars, pathVars, paramVars, concVars>>
    \/ OnRequest /\ UNCHANGED <<urlVars, deriveVars, resVars, pathVars, paramVars, concVars>>
    \/ Send /\ UNCHANGED <<urlVars, deriveVars, resVars, pathVars, paramVars, concVars>>
    \/ Receive /\ UNCHANGED <<urlVars, deriveVars, resVars, pathVars, paramVars, concVars>>
    \/ OnResponse /\ UNCHANGED <<urlVars, deriveVars, resVars, pathVars, paramVars, concVars>>
    \/ Result /\ UNCHANGED <<urlVars, deriveVars, resVars, pathVars, paramVars, concVars>>
    \/ ParseResult /\ UNCHANGED <<urlVars, deriveVars, resVars, pathVars, paramVars, concVars>>
Spec == Init /\ [][Next]_vars

----------------------------------------------------------------------------
(* Properties *)

StripLeadingSlash(p) == IF p # <<>> /\ p[1] = "/" THEN SubSeq(p, 2, Len(p)) ELSE p
StripTrailingSlash(p) == IF p # <<>> /\ p[Len(p)] = "/" THEN SubSeq(p, 1, Len(p) - 1) ELSE p
NoDoubleSlash(p) == \A i \in 1..(Len(p) - 1) : ~(p[i] = "/" /\ p[i + 1] = "/")

\* A segment that is neither empty nor "." nor "..".
OrdinarySegment(seg) == seg # <<>> /\ seg # <<".">> /\ seg # <<".", ".">>

\* A relative path of ordinary segments, with or without a leading slash and
\* with or without a trailing one (or no segment at all).
PlainRelativePath(p) ==
    LET q == StripLeadingSlash(p)
    IN  \/ q = <<>>
        \/ LET r == StripTrailingSlash(q)
               segs == split(r, "/")
           IN  \A i \in 1..Len(segs) : OrdinarySegment(segs[i])

\* The bases with no path or a path of ordinary segments, each with and
\* without the trailing slash.
PlainBases ==
    { <<SpecialOrigin>>,
      <<SpecialOrigin, "/">>,
      <<SpecialOrigin, "/", "b">>,
      <<SpecialOrigin, "/", "b", "/">>,
      <<SpecialOrigin, "/", "b", "/", "c">>,
      <<SpecialOrigin, "/", "b", "/", "c", "/">> }

\* The path of a serialized URL: what follows the origin, up to '?'.
PathOf(uri) == SubSeq(uri, 2, FirstIn(uri, {"?"}) - 1)

\* C2: for a base with or without a path and with or without a trailing slash,
\* and a relative path of ordinary segments with or without a leading slash,
\* build_url succeeds and the URL's path is the base path, one slash, and the
\* relative path; it holds no "//".
C2_PathJoin ==
    (u_out # NotCalled /\ u_base \in PlainBases /\ PlainRelativePath(u_path)) =>
        /\ u_out.kind = "ok"
        /\ u_out.uri[1] = SpecialOrigin
        /\ PathOf(u_out.uri) =
              StripTrailingSlash(Tail(u_base)) \o <<"/">> \o StripLeadingSlash(u_path)
        /\ NoDoubleSlash(PathOf(u_out.uri))

\* A base with a path and a trailing slash was joined with a relative path
\* that has a leading slash.
C2_Witness ==
    /\ u_out.kind = "ok"
    /\ u_base = <<SpecialOrigin, "/", "b", "/">>
    /\ u_path = <<"/", "a">>
    /\ u_query = None
    /\ u_out.uri = <<SpecialOrigin, "/", "b", "/", "a">>

HasRole(f, r) ==
    \E i \in 1..Len(f.attrs) : \E j \in 1..Len(f.attrs[i]) : to_lowercase(f.attrs[i][j]) = r
FieldsWithRole(r) == SelectSeq(fields, LAMBDA f : HasRole(f, r))
UntaggedFields == SelectSeq(fields, LAMBDA f : f.attrs = <<>>)
ByDerive == built.called /\ derived.by = "derive"

\* C3: an endpoint whose query parameters are empty (no query field, or query
\* fields that are all None) builds a URL without '?'.
C3_EmptyQueryNoQuestionMark ==
    (ByDerive /\ built.url.kind = "ok"
       /\ \A i \in 1..Len(fields) :
             HasRole(fields[i], "query") => self[fields[i].name].kind = "none") =>
        /\ "?" \notin Range(built.url.uri)
        /\ "?" \notin Range(built.request.req.uri)

\* `#[endpoint(query)] f1: Option<String>` holding None: the URL ends in '?'.
C3_FailingInput ==
    /\ ByDerive
    /\ Len(fields) = 1
    /\ fields[1].ty = TOption
    /\ fields[1].attrs = Attr(<<"query">>)
    /\ self["f1"].kind = "none"
    /\ built.query.opt = Some(<<>>)
    /\ built.url.uri = <<SpecialOrigin, "/", "p", "?">>

\* The bytes build_body makes of exactly the fields fs, in their order.
SerializedBody(fs) == build_body(temp_object(fields_to_struct(fs), self)).bytes

\* C4: the body of a derived endpoint is the Raw field's bytes if there is a
\* Raw field; else the serialization of exactly the Body fields if there are
\* any; else that of exactly the untagged fields if there are any; else none.
C4_BodyResolution ==
    ByDerive =>
        /\ built.body.ok
        /\ built.body.opt =
              IF FieldsWithRole("raw") # <<>>
              THEN Some(self[FieldsWithRole("raw")[1].name].v)
              ELSE IF FieldsWithRole("body") # <<>>
              THEN Some(SerializedBody(FieldsWithRole("body")))
              ELSE IF UntaggedFields # <<>>
              THEN Some(SerializedBody(UntaggedFields))
              ELSE None

\* A Raw field after a Body field: the body is the raw bytes.
C4_Witness ==
    /\ ByDerive
    /\ Len(fields) = 2
    /\ fields[1].attrs = Attr(<<"body">>)
    /\ fields[2].attrs = Attr(<<"raw">>)
    /\ built.body.opt = Some(<<"s">>)

TagAllBody(fs) == [i \in 1..Len(fs) |-> [fs[i] EXCEPT !.attrs = Attr(<<"body">>)]]
AllUntagged == \A i \in 1..Len(fields) : fields[i].attrs = <<>>

\* C5: the body of an endpoint without any tagged field equals the body of
\* the same struct with every field tagged body.
C5_UntaggedFallback ==
    (ByDerive /\ AllUntagged) =>
        built.body = endpoint_body(endpoint_derive(TagAllBody(fields)), self)

\* Two untagged fields, both serialized.
C5_Witness ==
    /\ ByDerive
    /\ AllUntagged
    /\ Len(fields) = 2
    /\ self["f1"].kind = "str"
    /\ self["f2"].kind = "some"
    /\ built.body.opt.some
    /\ built.body.opt.v # <<>>

Mentions(opt, name) == opt.some /\ name \in Range(opt.v)

\* C6: a field tagged skip appears neither in the body nor in the query.
C6_SkipNowhere ==
    ByDerive =>
        \A i \in 1..Len(fields) :
            HasRole(fields[i], "skip") =>
                /\ ~Mentions(built.body.opt, fields[i].name)
                /\ ~Mentions(built.query.opt, fields[i].name)

\* `#[endpoint(skip, body)] f1: String`: the field is in the body.
C6_FailingInput ==
    /\ ByDerive
    /\ Len(fields) = 1
    /\ fields[1].attrs = Attr(<<"skip", "body">>)
    /\ built.body.opt = Some(<<"{", Quote, "f1", Quote, ":", Quote, "v", Quote, "}">>)

\* The fields that make the body.
BodyFields ==
    IF FieldsWithRole("raw") # <<>> THEN <<>>
    ELSE IF FieldsWithRole("body") # <<>> THEN FieldsWithRole("body")
    ELSE UntaggedFields

\* C7: a body or query field of Option type is absent from the output when it
\* is None and present when it is Some.
C7_OptionalElision ==
    ByDerive =>
        /\ \A f \in Range(BodyFields) :
              IsOptionType(f.ty) =>
                 (Mentions(built.body.opt, f.name) <=> self[f.name].kind = "some")
        /\ \A f \in Range(FieldsWithRole("query")) :
              IsOptionType(f.ty) =>
                 (Mentions(built.query.opt, f.name) <=> self[f.name].kind = "some")

\* `#[endpoint(body)] f1: option::Option<String>` holding None: the body is
\* {"f1":null}.
C7_FailingInput ==
    /\ ByDerive
    /\ Len(fields) = 1
    /\ fields[1].ty = TModOption
    /\ fields[1].attrs = Attr(<<"body">>)
    /\ self["f1"].kind = "none"
    /\ built.body.opt = Some(<<"{", Quote, "f1", Quote, ":">> \o JsonNull \o <<"}">>)

\* The JSON text the body method serializes (before build_body looks at it).
SerializedText ==
    IF derived.body.kind = "unit" THEN serde_json_to_string(UnitObject)
    ELSE serde_json_to_string(temp_object(derived.body.temp, self))

\* C8: when the serialized body is "{}" or "null" the request carries no body
\* bytes and equals the request built from the same endpoint without a body.
C8_EmptyBodyCollapses ==
    (built.called /\ derived.body.kind \in {"serialize", "unit"}
       /\ built.query.ok /\ SerializedText \in {JsonEmptyObject, JsonNull}) =>
        /\ built.request.kind = "ok"
        /\ built.request.req.body = <<>>
        /\ built.request = build_request(DeriveBase, DerivePath, method, built.query.opt, None)

\* A POST endpoint whose only body field is None: the text is "{}".
C8_Witness ==
    /\ built.called
    /\ method = "POST"
    /\ Len(fields) = 1
    /\ fields[1].attrs = Attr(<<"body">>)
    /\ SerializedText = JsonEmptyObject
    /\ built.request.req.body = <<>>

InRange200To208(status) == status >= 200 /\ status <= 208

\* C1: execute (async and blocking) returns Ok(response) exactly when the
\* status of the response send returned is in 200..=208, and
\* ServerResponseError otherwise.
C1_StatusClassification ==
    ex.answer.kind = "resp" =>
        /\ ex.executed.kind = "ok" <=> InRange200To208(ex.answer.response.status)
        /\ ex.executed.kind = "ok" => ex.executed.response = ex.answer.response
        /\ ex.executed.kind # "ok" =>
              /\ ex.executed.kind = "err"
              /\ ex.executed.err = "ServerResponseError"
              /\ ex.result = ex.executed

\* The blocking client classified a 209 as a failure.
C1_Witness ==
    /\ ex.mode = "blocking"
    /\ ex.answer.kind = "resp"
    /\ ex.answer.response.status = 209
    /\ ex.executed.err = "ServerResponseError"

PipelineOrder == <<"build", "on_request", "send", "on_response", "result">>
IsPrefix(s, t) == Len(s) <= Len(t) /\ s = SubSeq(t, 1, Len(s))

\* C9: with middleware the steps run in the order build, on_request, send,
\* on_response, result, each at most once and all of them in an execution that
\* returns Ok; what send receives is the request as on_request left it.
C9_PipelineOrder ==
    ex.mw =>
        /\ IsPrefix(ex.log, PipelineOrder)
        /\ ex.result.kind = "ok" => ex.log = PipelineOrder
        /\ ex.req_hook \notin {"", "fail"} => ex.req = apply_request_hook(ex.req_hook, ex.built)
        /\ ex.pc \in {"awaiting", "on_response", "result"} \/ ex.answer.kind # "none" =>
              /\ ex.req_hook \notin {"", "fail"}
              /\ ex.sent = ex.req

\* An execution whose on_request changed the request returned Ok.
C9_Witness ==
    /\ ex.mw
    /\ ex.pc = "done"
    /\ ex.result.kind = "ok"
    /\ ex.req_hook = "add_header"
    /\ ex.sent # ex.built
    /\ ex.resp_hook = "set_body"

\* C10: after on_request failed, send is never called and the execution
\* returns that error; after on_response failed, the execution returns that
\* error and no EndpointResult is made.
C10_HookFailureAborts ==
    /\ ex.req_hook = "fail" =>
          /\ ex.pc = "done"
          /\ ex.result = ErrOutcome("GenericError", "on_request")
          /\ ex.sent = NoRequest
          /\ ex.answer.kind = "none"
          /\ "send" \notin Range(ex.log)
    /\ ex.resp_hook = "fail" =>
          /\ ex.pc = "done"
          /\ ex.result = ErrOutcome("GenericError", "on_response")
          /\ "result" \notin Range(ex.log)

\* on_response failed after a successful send.
C10_Witness ==
    /\ ex.resp_hook = "fail"
    /\ ex.req_hook = "pass"
    /\ ex.answer.response.status = 200
    /\ ex.result.kind = "err"

\* The calls made so far with one of the given methods.
CallsOf(ops) == SelectSeq(res.calls, LAMBDA c : c.op \in ops)

\* C11: parse (and wrap) on a zero-length body returns an absent result, which
\* is neither a value nor a parse failure; on a non-empty body a failure to
\* deserialize is ResponseParseError.
C11_EmptyBodyIsAbsent ==
    \A c \in Range(CallsOf({"parse", "wrap"})) :
        /\ res.response.body = <<>> => c.out.kind = "absent"
        /\ res.response.body # <<>> =>
              /\ c.out.kind \in {"ok", "err"}
              /\ c.out.kind = "err" => c.out.err = "ResponseParseError"

\* An endpoint whose Response is () received an empty body: parse fails.
C11_FailingInput ==
    /\ res.ty = TyUnit
    /\ res.response.body = <<>>
    /\ res.value = NoObject
    /\ Len(res.calls) = 1
    /\ res.calls[1].op = "parse"
    /\ res.calls[1].out.kind = "err"
    /\ res.calls[1].out.err = "ResponseParseError"
    /\ res.calls[1].out.content = Some(<<>>)

\* The value an object of the model is, in the shape deserialize returns.
AsDecoded(object) ==
    IF object.kind = "unit" THEN DUnit
    ELSE [kind |-> "struct", v |-> <<>>,
          members |-> [i \in 1..Len(object.members) |->
                         [name |-> object.members[i].name,
                          val |-> [kind |-> object.members[i].val.kind,
                                   v |-> object.members[i].val.v,
                                   members |-> <<>>]]]]

\* C12: parsing, as the type of v, the bytes build_body makes of v returns a
\* value equal to v.
C12_RoundTrip ==
    res.value # NoObject =>
        \A c \in Range(CallsOf({"parse"})) :
            /\ c.out.kind = "ok"
            /\ c.out.val = AsDecoded(res.value)

\* The unit value: build_body writes no bytes for it and parse fails.
C12_FailingInput ==
    /\ res.value = UnitObject
    /\ res.response.body = <<>>
    /\ Len(res.calls) = 1
    /\ res.calls[1].op = "parse"
    /\ res.calls[1].out.kind = "err"

DecodedAge == [kind |-> "struct", v |-> <<>>,
               members |-> <<[name |-> "age",
                              val |-> [kind |-> "u8", v |-> <<"30">>, members |-> <<>>]]>>]
DecodedWrappedAge == [kind |-> "struct", v |-> <<>>,
                      members |-> <<[name |-> "result", val |-> DecodedAge]>>]

C15_SameBytes ==
    /\ \A c \in Range(CallsOf({"raw"})) : c.out.bytes = res.response.body
    /\ \A i, j \in 1..Len(res.calls) :
          res.calls[i].op = res.calls[j].op => res.calls[i].out = res.calls[j].out
    /\ (res.ty = TestResponse /\ res.response.body = WrappedAgeBody) =>
          /\ \A c \in Range(CallsOf({"wrap"})) : c.out.kind = "ok" /\ c.out.val = DecodedWrappedAge
          /\ \A c \in Range(CallsOf({"parse"})) : c.out.kind = "err"
    /\ (res.ty = TestResponse /\ res.response.body = AgeBody) =>
          /\ \A c \in Range(CallsOf({"wrap"})) : c.out.kind = "err"
          /\ \A c \in Range(CallsOf({"parse"})) : c.out.kind = "ok" /\ c.out.val = DecodedAge

C13_ErrorContent ==
    ex.executed.err = "ServerResponseError" =>
        /\ ex.executed.code = ex.answer.response.status
        /\ ex.executed.content = IF InvalidByte \in Range(ex.answer.response.body)
                                 THEN None
                                 ELSE Some(ex.answer.response.body)
        /\ ex.result = ex.executed

\* A 500 whose body is text was classified.
C13_Witness ==
    /\ ex.executed.err = "ServerResponseError"
    /\ ex.answer.response.status = 500
    /\ ex.answer.response.body = <<"o", "k">>
    /\ ex.executed.content = Some(<<"o", "k">>)

\* C16: parse reads the body as on_response left it, never the bytes the
\* transport received: a wrapped body the hook unwrapped parses as the inner
\* object, and a parseable body the hook overwrote no longer parses.
C16_ParseSeesHookedBody ==
    ex.pc = "parsed" /\ ex.mw =>
        /\ ex.result.response = ex.resp
        /\ ex.resp_hook = "pass" => ex.resp = ex.answer.response
        /\ ex.resp_hook = "middle" /\ ex.answer.response.body = WrappedAgeBody
            /\ EndpointSamples[ex.ep].response = TestResponse =>
              /\ ex.result.response.body = AgeBody
              /\ ex.parsed.kind = "ok"
              /\ ex.parsed.val = DecodedAge
        /\ ex.resp_hook = "set_body" /\ EndpointSamples[ex.ep].response = TestResponse =>
              /\ ex.result.response.body = <<"i">>
              /\ ex.parsed.kind = "err"
              /\ ex.parsed.err = "ResponseParseError"

\* The hook unwrapped {"result":{"age":30}} and parse returned the age.
C16_Witness ==
    /\ ex.pc = "parsed"
    /\ ex.mw
    /\ ex.resp_hook = "middle"
    /\ ex.answer.response.body = WrappedAgeBody
    /\ ex.parsed.kind = "ok"
    /\ ex.parsed.val = DecodedAge

\* C19: when send fails, on_response is never called and the execution
\* returns the send error.
C19_SendFailureSkipsHook ==
    ex.answer.kind = "err" =>
        /\ ex.pc = "done"
        /\ ex.result = ErrOutcome("RequestError", "send")
        /\ ex.resp_hook = ""
        /\ "on_response" \notin Range(ex.log)
        /\ "result" \notin Range(ex.log)

\* send failed in an execution with middleware whose on_request had passed.
C19_Witness ==
    /\ ex.mw
    /\ ex.req_hook = "pass"
    /\ ex.answer.kind = "err"
    /\ ex.result.err = "RequestError"

SendCount == Len(SelectSeq(ex.log, LAMBDA e : e = "send"))

\* A step of the execution has failed.
StepFailed ==
    \/ ex.pc # "build" /\ ex.built = NoRequest /\ ex.pc # "panicked"
    \/ ex.req_hook = "fail"
    \/ ex.answer.kind = "err"
    \/ ex.answer.kind = "resp" /\ ~InRange200To208(ex.answer.response.status)
    \/ ex.resp_hook = "fail"
    \/ ex.resp_hook = "middle" /\ ex.answer.response.body # WrappedAgeBody

C20_Terminal ==
    /\ SendCount <= 1
    /\ StepFailed =>
          /\ ex.pc = "done"
          /\ ex.result.kind = "err"
          /\ "result" \notin Range(ex.log)

\* C20: nothing is retried: send is called at most once in an execution, and
\* once a step has failed the execution is over with an error that no later
\* step replaces.
C20_NoRetry ==
    /\ []C20_Terminal
    /\ [][ex.result.kind = "err" => ex' = ex]_vars

\* send was called once, failed, and the execution ended with that error.
C20_Witness ==
    /\ SendCount = 1
    /\ ex.answer.kind = "err"
    /\ ex.pc = "done"
    /\ ex.result.kind = "err"

\* The text after the first '?' of a URL.
QueryOf(uri) == SubSeq(uri, FirstIn(uri, {"?"}) + 1, Len(uri))
HasQuery(uri) == "?" \in Range(uri)

\* C18: for a base that carries a query and a non-empty endpoint query, the
\* query of the built URL holds the base's pairs and the endpoint's pairs.
C18_QueryAppended ==
    ( /\ u_out.kind = "ok"
      /\ HasQuery(u_base)
      /\ u_query.some
      /\ u_query.v # <<>> ) =>
        /\ \E i \in 1..Len(QueryOf(u_out.uri)) :
              SubSeq(QueryOf(u_out.uri), i, i + Len(QueryOf(u_base)) - 1) = QueryOf(u_base)
        /\ \E i \in 1..Len(QueryOf(u_out.uri)) :
              SubSeq(QueryOf(u_out.uri), i, i + Len(u_query.v) - 1) = u_query.v

\* build_url("https://h/b?x", "a", Some("k=v")) returned https://h/b/a?k=v.
C18_FailingInput ==
    /\ u_base = <<SpecialOrigin, "/", "b", "?", "x">>
    /\ u_path = <<"a">>
    /\ u_query = Some(<<"k", "=", "v">>)
    /\ u_out.kind = "ok"
    /\ u_out.uri = <<SpecialOrigin, "/", "b", "/", "a", "?", "k", "=", "v">>

\* Where the placeholder at the head of t closes: t opens a brace, names a
\* field expression (a `//` comment may follow it) and closes the brace; 0
\* when t does not start with a placeholder.
PlaceholderEnd(t) ==
    IF Len(t) >= 3 /\ t[1] = "{" /\ t[2] \in FieldExprs /\ "}" \in Range(t)
    THEN LET j == FirstIn(t, {"}"})
         IN  IF j = 3 \/ (j > 4 /\ t[3] = "/" /\ t[4] = "/") THEN j ELSE 0
    ELSE 0

\* The template with every placeholder replaced by the value of its
\* expression and every other token kept.
RECURSIVE Interpolated(_)
Interpolated(t) ==
    IF t = <<>> THEN <<>>
    ELSE IF PlaceholderEnd(t) > 0
    THEN PathSelf[t[2]] \o Interpolated(SubSeq(t, PlaceholderEnd(t) + 1, Len(t)))
    ELSE <<Head(t)>> \o Interpolated(Tail(t))

\* C14: the generated path is the template with the i-th placeholder replaced
\* by the value of its expression on the instance and all other text
\* unchanged; a template without placeholder is returned verbatim.
C14_PositionalInterpolation ==
    path_out.kind = "ok" => path_out.out = Interpolated(template)

\* path = "{self.f1}}}" on f1 = "v" returned "v}".
C14_FailingInput ==
    /\ template = <<"{", "self.f1", "}", "}", "}">>
    /\ path_out.kind = "ok"
    /\ path_out.out = <<"v", "}">>

\* The keys of the only attribute, and the roles named on the fields.
KeysGiven == IF Len(s_attrs) = 1 THEN {s_attrs[1][i].key : i \in 1..Len(s_attrs[1])} ELSE {}
RolesGiven ==
    UNION {UNION {Range(p_fields[i].attrs[j]) : j \in 1..Len(p_fields[i].attrs)} :
             i \in 1..Len(p_fields)}
Rejected == params.kind = "error"

\* What the claim says of the struct-level attribute and of the defaults.
StructValidation ==
    /\ s_attrs = <<>> => Rejected
    /\ Len(s_attrs) > 1 => Rejected
    /\ "path" \notin KeysGiven => Rejected
    /\ (\E k \in KeysGiven :
           k \notin {"path", "method", "response", "request_type", "response_type",
                     "builder"}) => Rejected
    /\ ~Rejected =>
          /\ "method" \notin KeysGiven => params.method = "GET"
          /\ "response" \notin KeysGiven => params.response = "()"
          /\ "request_type" \notin KeysGiven => params.request_type = "JSON"
          /\ "response_type" \notin KeysGiven => params.response_type = "JSON"

LowerCase(r) == IF r = "Body" THEN "body" ELSE r

\* C17 as stated: deriving fails without the endpoint attribute, with more
\* than one, without `path`, with a struct-level key outside the six, or with
\* a field role that is not one of body, query, raw, skip; otherwise omitted
\* parameters default to GET, (), JSON and JSON.
C17_ExactRoleNames ==
    params # NotExpanded =>
        /\ StructValidation
        /\ (\E r \in RolesGiven : r \notin {"body", "query", "raw", "skip"}) => Rejected

\* C17, amended: as stated, with the field role compared without regard to
\* case (`Body` is the role body).
C17_Validation ==
    params # NotExpanded =>
        /\ StructValidation
        /\ (\E r \in RolesGiven : LowerCase(r) \notin {"body", "query", "raw", "skip"})
              => Rejected

\* #[endpoint(path = "p", result = "T")] was rejected as in
\* tests/macro/invalid_result.rs.
C17_Witness ==
    /\ s_attrs = << <<NameValue("path", "p"), NameValue("result", "T")>> >>
    /\ p_fields = <<>>
    /\ params.kind = "error"
    /\ params.err = "Unknown parameter"

\* C27: build_url returns a URI or a typed ClientError (UrlParseError,
\* UrlBuildError) for every base, path and query; it never panics.
C27_NeverPanics ==
    u_out # NotCalled =>
        \/ u_out.kind = "ok"
        \/ u_out.kind = "err" /\ u_out.err \in {"UrlParseError", "UrlBuildError"}

\* build_url("mailto:x", "a", None) panicked in path_segments_mut().unwrap().
C27_FailingInput ==
    /\ u_base = <<OpaqueScheme, "x">>
    /\ u_path = <<"a">>
    /\ u_query = None
    /\ u_out.kind = "panic"

\* request() fails for the endpoint whose query field is a Vec<u8> and for
\* the base Url::parse rejects; the query is serialized first.
ExpectedBuildError ==
    IF EndpointSamples[ex.ep].fields # <<>>
       /\ EndpointSamples[ex.ep].fields[1].attrs = Attr(<<"query">>)
    THEN "UrlQueryParseError"
    ELSE IF ex.base = <<"h">> THEN "UrlParseError"
    ELSE ""

\* C21: when building the request fails, exec returns that build error and
\* send is never called.
C21_BuildFailureBeforeSend ==
    (ex.pc \notin {"idle", "build"} /\ ExpectedBuildError # "") =>
        /\ ex.pc = "done"
        /\ ex.result = ErrOutcome(ExpectedBuildError, "build")
        /\ ex.log = <<"build">>
        /\ ex.sent = NoRequest
        /\ ex.answer.kind = "none"

\* The base did not parse, with middleware attached.
C21_Witness ==
    /\ ex.mw
    /\ ex.base = <<"h">>
    /\ ex.ep = 1
    /\ ex.pc = "done"
    /\ ex.result.err = "UrlParseError"

\* C22: when send returns a response with a success status, exec returns Ok
\* with an EndpointResult holding that response and JSON as its type,
\* whatever the body holds; a parse error arises only in a later parse call.
C22_NoParsingInResult ==
    /\ ( /\ ex.answer.kind = "resp"
          /\ InRange200To208(ex.answer.response.status)
          /\ ex.pc \in {"done", "parsed"}
          /\ ex.resp_hook \in {"", "pass"} ) =>
            /\ ex.result.kind = "ok"
            /\ ex.result.response = ex.answer.response
            /\ ex.result.ty = "JSON"
    /\ ~ex.mw => ex.result.err # "ResponseParseError"
    /\ ex.parsed.kind # "" => ex.pc = "parsed"

\* exec returned Ok for a body that is no JSON, and the parse that followed
\* failed.
C22_Witness ==
    /\ ~ex.mw
    /\ ex.answer.response = [status |-> 200, body |-> <<"o", "k">>]
    /\ EndpointSamples[ex.ep].response = TestResponse
    /\ ex.result.kind = "ok"
    /\ ex.pc = "parsed"
    /\ ex.parsed.err = "ResponseParseError"

\* C29: for a response whose status is outside 200..=208 the execution
\* returns the ServerResponseError made of the response as send returned it,
\* and on_response is never called.
C29_HookOnlyOnSuccess ==
    (ex.answer.kind = "resp" /\ ~InRange200To208(ex.answer.response.status)) =>
        /\ ex.pc = "done"
        /\ ex.result.kind = "err"
        /\ ex.result.err = "ServerResponseError"
        /\ ex.result.code = ex.answer.response.status
        /\ ex.result.content = IF InvalidByte \in Range(ex.answer.response.body)
                               THEN None
                               ELSE Some(ex.answer.response.body)
        /\ ex.resp_hook = ""
        /\ ex.resp = NoResponse
        /\ "on_response" \notin Range(ex.log)

\* A 500 came back in an execution with middleware.
C29_Witness ==
    /\ ex.mw
    /\ ex.req_hook = "pass"
    /\ ex.answer.kind = "resp"
    /\ ex.answer.response.status = 500
    /\ ex.result.err = "ServerResponseError"
    /\ ex.log = <<"build", "on_request", "send">>

\* C28: with a second middleware applied over a MutatedEndpoint only the
\* outer middleware's hooks run, each at most once; the hooks of the
\* middleware inside are never called.
C28_OnlyOuterMiddleware ==
    ex.inner =>
        /\ ex.mw
        /\ IsPrefix(ex.log, PipelineOrder)
        /\ "inner_on_request" \notin Range(ex.log)
        /\ "inner_on_response" \notin Range(ex.log)
        /\ ex.req_hook \notin {"", "fail"} => ex.req = apply_request_hook(ex.req_hook, ex.built)
        /\ ex.resp_hook = "set_body" => ex.resp = [ex.answer.response EXCEPT !.body = <<"i">>]
        /\ ex.resp_hook = "pass" => ex.resp = ex.answer.response

\* A doubly wrapped endpoint ran to Ok through one on_request and one
\* on_response.
C28_Witness ==
    /\ ex.inner
    /\ ex.result.kind = "ok"
    /\ ex.log = PipelineOrder
    /\ ex.req_hook = "add_header"
    /\ ex.resp_hook = "set_body"

\* The execution of the state before its first step.
StartOf(x) == [ExStart(x.ep, x.mw, x.mode, x.base) EXCEPT !.inner = x.inner]
PlainStartOf(x) == ExStart(x.ep, FALSE, x.mode, x.base)
OtherMode(m) == IF m = "async" THEN "blocking" ELSE "async"

C24_AsyncEqualsBlocking ==
    ex.pc = "done" =>
        exec([StartOf(ex) EXCEPT !.mode = OtherMode(ex.mode)],
             ex.req_hook, ex.answer, ex.resp_hook)
        = [ex EXCEPT !.mode = OtherMode(ex.mode)]

\* A blocking execution with middleware ended on a 209.
C24_Witness ==
    /\ ex.pc = "done"
    /\ ex.mode = "blocking"
    /\ ex.mw
    /\ ex.answer.response.status = 209
    /\ ex.result.err = "ServerResponseError"

\* What execution i holds follows from its own endpoint, hook outcomes and
\* answer.
OwnOutcome(x) ==
    /\ x.sent # NoRequest =>
          /\ x.sent = x.req
          /\ x.sent.method = EndpointSamples[x.ep].method
          /\ x.sent.body = (IF x.ep = 2 THEN <<"{", Quote, "f1", Quote, ":", Quote, "v", Quote, "}">>
                             ELSE <<>>)
          /\ (<<"X-API-Token", "mytoken">> \in x.sent.headers) <=> (x.req_hook = "add_header")
    /\ x.answer.kind = "err" => x.result = ErrOutcome("RequestError", "send")
    /\ x.answer.kind = "resp" /\ x.answer.response.status = 500 =>
          /\ x.result.err = "ServerResponseError"
          /\ x.result.code = 500
          /\ x.result.content = Some(x.answer.response.body)
    /\ x.result.kind = "ok" =>
          /\ x.answer.kind = "resp"
          /\ x.result.response.status = x.answer.response.status
          /\ x.result.response.body =
                (IF x.resp_hook = "set_body" THEN <<"i">> ELSE x.answer.response.body)
    /\ x.pc = "done" => x = exec(StartOf(x), x.req_hook, x.answer, x.resp_hook)

C25_EachItsOwn == \A i \in 1..Len(exs) : OwnOutcome(exs[i])

\* C25: executions that interleave against one client are independent: what
\* each sends and returns follows from its own endpoint and its own answer,
\* and a step of one execution leaves every other execution as it was.
C25_Independent ==
    /\ []C25_EachItsOwn
    /\ [][\A i \in 1..Len(exs) : exs'[i] # exs[i] =>
              \A j \in 1..Len(exs) : j # i => exs'[j] = exs[j]]_vars

\* Two executions of different endpoints ran against the client and both
\* finished, one Ok with a changed request and one with a server error.
C25_Witness ==
    /\ Len(exs) >= 2
    /\ exs[1].ep = 1 /\ exs[2].ep = 2
    /\ exs[1].mw /\ exs[2].mw
    /\ exs[1].pc = "done" /\ exs[2].pc = "done"
    /\ exs[1].result.kind = "ok"
    /\ exs[1].req_hook = "add_header" /\ exs[2].req_hook = "pass"
    /\ exs[2].result.err = "ServerResponseError"

\* C26: a struct with two or more fields tagged raw does not derive.
C26_OneRawField ==
    (derived.by = "derive" /\ Len(FieldsWithRole("raw")) >= 2) =>
        /\ derived.status = "error"
        /\ derived.body = NoBody
        /\ ~built.called

\* Two Vec<u8> fields tagged raw were rejected by gen_body.
C26_Witness ==
    /\ Len(fields) = 2
    /\ fields[1].attrs = Attr(<<"raw">>)
    /\ fields[2].attrs = Attr(<<"raw">>)
    /\ derived.status = "error"
    /\ derived.err = "May only mark one field as raw"

\* C30: every field is in the Untagged group exactly when it has no endpoint
\* attribute, and otherwise once in the group of each role it is tagged with,
\* however often the role is named; the fields of a group are in declaration
\* order.
C30_Classification ==
    (derived.by = "derive" /\ derived.err # "field attribute") =>
        /\ derived.groups["untagged"] = UntaggedFields
        /\ \A r \in {"body", "query", "raw", "skip"} :
              derived.groups[r] = FieldsWithRole(r)

\* #[endpoint(body, Body)] f1: String is in the Body group twice.
C30_FailingInput ==
    /\ Len(fields) = 1
    /\ fields[1].attrs = Attr(<<"body", "Body">>)
    /\ derived.by = "derive"
    /\ derived.groups["body"] = <<fields[1], fields[1]>>

====
